---- MODULE Spec2Model ----
(***************************************************************************)
(* Verification model of the goli terminal UI engine.                      *)
(*                                                                         *)
(* Part 1: the reactive graph (signals, effects, batches, owner scopes).   *)
(* The repository holds two implementations of it: package goli            *)
(* (src/signal.go, src/effect.go, the Runtime record) and the older        *)
(* package signals (src/signals/), which app.go, focus.go, button.go and   *)
(* the input still import.  The variable impl selects which one a          *)
(* behaviour runs; they differ in whether an effect is unsubscribed from   *)
(* its signals on re-execution and on dispose.                             *)
(*                                                                         *)
(* The driver is straight-line client code (a test body): it writes and    *)
(* reads signals, opens and closes batches and roots, creates and          *)
(* disposes effects.  One action is one client call, run to completion     *)
(* with everything it executes synchronously.                              *)
(***************************************************************************)
EXTENDS Integers, Sequences, FiniteSets, TLC

\* ------------------------------------------------------------- bounds
MaxVal == 1
NumEffects == 2
MaxDepth == 2
NumFocus == 3
BufW == 3
BufH == 2
MaxRows == 2
MaxRowLen == 4
MaxTermWidth == 3
TermW == 2
TermH == 2
MaxChildren == 3
MaxGrow == 2
MaxSize == 1
MaxMain == 10
MaxBoxes == 3
MaxZ == 2
MaxWrites == 3
MaxFrame == 2
MaxAppWrites == 3
MaxInputLen == 3
MaxInputMax == 2
MaxOptions == 3
MaxIndex == 4

\* the height a LogicalBuffer can grow to (src/unnamed/part_000)
MaxBufferHeight == 10000

\* ------------------------------------------------------------ domains
Signals == {"a", "b"}
Values == 0..MaxVal
Effects == 1..NumEffects
Impls == {"goli", "signals"}

\* nil *computation / nil *Owner
NoComp == 0
NoOwner == 0
\* the one root owner the driver may create
RootId == 1
\* the function the driver registers with OnCleanup, as an entry of
\* Owner.disposables next to the effects' DisposeFuncs
CallbackId == NumEffects + 1
Disposers == Effects \cup {CallbackId}
\* "signal not read in the last run" in the observation ghost
NoVal == MaxVal + 1

\* Bodies of the effects the driver creates (user code handed to
\* CreateEffect):
\*   sum    reads a and b and returns a cleanup (TestCreateEffect_TracksMultipleSignals,
\*                                               TestCreateEffect_RunsCleanupBeforeRerun)
\*   cond   reads a, and b only when a # 0      (TestSolidPatterns_ConditionalEffects)
\*   panic  reads a and panics when a = 1
Kinds == {"sum", "cond", "panic"}
\*   once   reads a, calls its own DisposeFunc when a = 1 and returns a
\*          cleanup (an effect that stops itself)
\*   peek   reads a and b when a = 0; when a # 0 reads b inside Untrack
\*          and then a
\*   kill   reads a and, when a = 1, calls the DisposeFunc of the other
\*          effect

VARIABLES
    impl,                \* which package the behaviour runs
    value,               \* signalValue.value, per signal
    subscribers,         \* signalValue.subscribers, per signal
    subscriptions,       \* computation.subscriptions, per effect
    kind,                \* the body given to CreateEffect ("none": not created)
    disposed,            \* CreateEffect's captured `disposed`
    cleanup,             \* CreateEffect's captured `cleanup` is non-nil
    returned,            \* CreateEffect returned a DisposeFunc to the driver
    currentComputation,  \* Runtime.currentComputation
    currentOwner,        \* Runtime.currentOwner
    batchDepth,          \* Runtime.batchDepth
    pendingComputations, \* Runtime.pendingComputations
    disposables,         \* Owner.disposables of the root
    rootUsed,            \* the driver has called CreateRoot
    stack,               \* the driver's open Batch / CreateRoot calls, innermost last
    lastOp,              \* ghost: the client call just completed
    ran,                 \* ghost: body runs of each effect during the last call
    seen,                \* ghost: what each effect's last body run read during the last call
    panicked,            \* ghost: the last call ended in a panic the driver recovered
    notified,            \* ghost: effects subscribed to a signal when it was written in the open batch
    written,             \* ghost: signals written in the open batch
    owed,                \* ghost: cleanups each effect's runs returned that were not invoked yet
    atCleanup,           \* ghost: whether the effect was still subscribed when the last call's dispose invoked its cleanup
    owned,               \* ghost: the disposers ever appended to the root's Owner.disposables
    dran,                \* ghost: how often the root's disposer has invoked each disposer
    peeked,              \* ghost: the signals each effect's latest run read inside Untrack only
    afterDispose         \* ghost: the effects disposed during the last call that execute
                         \* skipped later in it, and the effects whose body ran while disposed

\* Part 2: the focus manager (src/focus.go) and the focusables' flags.
VARIABLES
    registered,          \* FocusManager.registered
    currentFocused,      \* value of the FocusManager's current signal
    focused,             \* value of each focusable's focused signal
    mgr,                 \* package of the manager's current signal
    globalKeyHandler,    \* FocusManager.globalKeyHandler is installed
    obs,                 \* ghost: what the observing effects saw when they ran during the last call
    fOp,                 \* ghost: the focus call just completed
    keyOut               \* ghost: the handlers the last HandleKey invoked and what it returned

fvars == <<registered, currentFocused, focused, mgr, globalKeyHandler, obs, fOp, keyOut>>

rvars == <<impl, value, subscribers, subscriptions, kind, disposed, cleanup, returned,
           currentComputation, currentOwner, batchDepth, pendingComputations,
           disposables, rootUsed, stack, lastOp, ran, seen, panicked, notified, written,
           owed, atCleanup, owned, dran, peeked, afterDispose>>

\* Part 3: the pipelined renderer (src/renderer.go), its four stage
\* goroutines and the goroutine that calls Render and Stop.
VARIABLES
    layoutIn,            \* number of VNodes queued in PipelineRenderer.layoutIn
    bufferIn,            \* number of LayoutBoxes queued in PipelineRenderer.bufferIn
    diffIn,              \* pool indices of the CellBuffers queued in PipelineRenderer.diffIn
    outputIn,            \* number of strings queued in PipelineRenderer.outputIn
    closed,              \* the channels that have been closed
    pc,                  \* where each goroutine is
    poolIdx,             \* bufferStage's poolIdx
    visualBuf,           \* bufferStage's visualBuf, a pool index
    currentBuf,          \* diffStage's currentBuf, a pool index
    prevBuffer           \* PipelineRenderer.prevBuffer, a pool index

pvars == <<layoutIn, bufferIn, diffIn, outputIn, closed, pc, poolIdx, visualBuf,
           currentBuf, prevBuffer>>

\* Part 4: Run (src/app.go): the main goroutine, the input reader, the
\* signal handler and the two console-capture readers around one Renderer.
VARIABLES
    apc,                 \* where each goroutine of Run is
    raw,                 \* the terminal is in raw mode
    proc,                \* the process: running, exited or crashed
    doneClosed,          \* Run's done channel is closed
    cleanedUp,           \* Run's cleanedUp
    unmounts,            \* ghost: calls of RunOptions.OnUnmount so far
    showLogs,            \* value of the showLogs signal
    msgsSubscribed,      \* the render effect is subscribed to LogCapture.messages
    bufId,               \* identity of the Renderer's buffers; Resize replaces them
    onError,             \* RunOptions.OnError is installed
    lastPanic            \* ghost: the last panic raised in the render effect's body

avars == <<apc, raw, proc, doneClosed, cleanedUp, unmounts, showLogs, msgsSubscribed, bufId,
           onError, lastPanic>>

\* Part 5: the diff engine (src/diff.go, src/ansi.go) in front of a terminal.
VARIABLES
    bufFrom,             \* the CellBuffer the display shows (DiffBuffers' from)
    bufTo,               \* the CellBuffer to show (DiffBuffers' to)
    display,             \* what the terminal shows
    ansi,                \* the output emitted for the frame
    dstage               \* "input" before the frame is emitted, "applied" after

dvars == <<bufFrom, bufTo, display, ansi, dstage>>

\* Part 6: reflowing a LogicalBuffer (src/unnamed/part_000).
VARIABLES
    lrows,               \* the LogicalBuffer's rows
    termWidth,           \* the terminal width handed to ToVisualRows
    vrows                \* the VisualRows returned, NoRows before the call

lvars == <<lrows, termWidth, vrows>>

\* Part 7: the sequential Renderer (src/renderer.go).
VARIABLES
    rHeight,             \* Renderer.height
    logicalH,            \* the heights of currentLogical and nextLogical
    currentVisual,       \* Renderer.currentVisual
    nextVisual,          \* Renderer.nextVisual
    isFirstRender,       \* Renderer.isFirstRender
    emitted              \* the path the last frame took and the rows it addressed

nvars == <<rHeight, logicalH, currentVisual, nextVisual, isFirstRender, emitted>>

\* Part 8: flex distribution (src/layout.go, layoutFlexChildren).
VARIABLES
    flexChildren,        \* the measured children: main-axis size, grow, explicit main size
    flexAvail,           \* availableMain
    flexGap,             \* gap
    growShares           \* growShares once computed, <<>> before

xvars == <<flexChildren, flexAvail, flexGap, growShares>>

\* Part 9: the absolute boxes of ComputeLayout (src/layout.go).
VARIABLES
    allAbsolute,         \* the collected absolute boxes, in collection order
    flexCount,           \* len(result.Box.Children)
    newChildren          \* the root's children as returned, <<>> before

zvars == <<allAbsolute, flexCount, newChildren>>

\* Part 10: Style.Merge (src/unnamed/part_006).
VARIABLES
    mergeBase,           \* the receiver of Merge
    mergeOverlay,        \* its argument
    mergeResult          \* <<the returned style>>, <<>> before the call

svars == <<mergeBase, mergeOverlay, mergeResult>>

\* Part 11: LogicalBuffer writes (src/unnamed/part_000).
VARIABLES
    lbCreated,           \* the height NewLogicalBuffer was called with
    lbHeight,            \* b.height, which is also len(b.rows)
    lbRows,              \* the rows that hold cells: row index -> cells;
                         \* every other row below lbHeight has Cells nil
    lbLast,              \* the last write: its row and the buffer before it
    lbWrites             \* number of writes so far

bvars == <<lbCreated, lbHeight, lbRows, lbLast, lbWrites>>

\* Part 12: the focus manager's mutex (src/focus.go) on one goroutine.
VARIABLES
    muLocked,            \* m.mu is held for writing
    lkRegistered,        \* the focusables in m.registered
    lkCurrent,           \* value of the current signal
    lkEffect,            \* the manager call made by the effect subscribed to
                         \* the current signal, "none" without such an effect
    lkCall,              \* the manager call in progress and its position
    lkEffPc              \* position of the effect's run

kvars == <<muLocked, lkRegistered, lkCurrent, lkEffect, lkCall, lkEffPc>>

\* Part 13: the App returned by Render (src/app.go): the render effect, the
\* throttle of doRender, Rerender, Resize and Dispose.
VARIABLES
    appSig,              \* value of the signal the app function reads
    currentVNode,        \* the tree of the effect's last run, named by that value
    lastFrame,           \* the tree of the last frame written to the output
    sinceRender,         \* time.Now() against lastRender: "within" the frame
                         \* interval or "beyond" it
    throttleDisabled,    \* Options.DisableThrottle
    appDisposed,         \* App.Dispose has run: the render effect is disposed
    wrote,               \* ghost: what made the last step write a frame
    appWrites            \* number of signal writes so far

gvars == <<appSig, currentVNode, lastFrame, sinceRender, throttleDisabled,
           appDisposed, wrote, appWrites>>

\* Part 14: the Input component (src/unnamed/part_002).
VARIABLES
    inValue,             \* the value signal: a sequence of bytes
    inCursor,            \* the cursorPos signal
    inMaxLength,         \* Input.maxLength
    inFocused,           \* the focused signal
    inInitial,           \* ghost: InputOptions.InitialValue
    inOp                 \* ghost: the last call made on the input

ivars == <<inValue, inCursor, inMaxLength, inFocused, inInitial, inOp>>

\* Part 15: the Select component (src/unnamed/part_001).
VARIABLES
    selectedIndex,       \* the selectedIndex signal
    selFocused,          \* the focused signal
    optionCount,         \* Select.optionCount, set by the layout of the options
    initialIndex,        \* Select.initialIndex, 0 while no initial value applies
    selOp                \* ghost: the last call made on the select

wvars == <<selectedIndex, selFocused, optionCount, initialIndex, selOp>>

\* what the actions of each part leave alone
notReactive == <<fvars, pvars, avars, dvars, lvars, nvars, xvars, zvars, svars, bvars, kvars, gvars, ivars, wvars>>
notFocus == <<rvars, pvars, avars, dvars, lvars, nvars, xvars, zvars, svars, bvars, kvars, gvars, ivars, wvars>>
notPipeline == <<rvars, fvars, avars, dvars, lvars, nvars, xvars, zvars, svars, bvars, kvars, gvars, ivars, wvars>>
notApp == <<rvars, fvars, pvars, dvars, lvars, nvars, xvars, zvars, svars, bvars, kvars, gvars, ivars, wvars>>
notDiff == <<rvars, fvars, pvars, avars, lvars, nvars, xvars, zvars, svars, bvars, kvars, gvars, ivars, wvars>>
notReflow == <<rvars, fvars, pvars, avars, dvars, nvars, xvars, zvars, svars, bvars, kvars, gvars, ivars, wvars>>
notRenderer == <<rvars, fvars, pvars, avars, dvars, lvars, xvars, zvars, svars, bvars, kvars, gvars, ivars, wvars>>
notFlex == <<rvars, fvars, pvars, avars, dvars, lvars, nvars, zvars, svars, bvars, kvars, gvars, ivars, wvars>>
notZ == <<rvars, fvars, pvars, avars, dvars, lvars, nvars, xvars, svars, bvars, kvars, gvars, ivars, wvars>>
notStyle == <<rvars, fvars, pvars, avars, dvars, lvars, nvars, xvars, zvars, bvars, kvars, gvars, ivars, wvars>>
notLogical == <<rvars, fvars, pvars, avars, dvars, lvars, nvars, xvars, zvars, svars, kvars, gvars, ivars, wvars>>
notLock == <<rvars, fvars, pvars, avars, dvars, lvars, nvars, xvars, zvars, svars, bvars, gvars, ivars, wvars>>
notRender == <<rvars, fvars, pvars, avars, dvars, lvars, nvars, xvars, zvars, svars, bvars, kvars, ivars, wvars>>
notInput == <<rvars, fvars, pvars, avars, dvars, lvars, nvars, xvars, zvars, svars, bvars, kvars, gvars, wvars>>
notSelect == <<rvars, fvars, pvars, avars, dvars, lvars, nvars, xvars, zvars, svars, bvars, kvars, gvars, ivars>>

vars == <<rvars, fvars, pvars, avars, dvars, lvars, nvars, xvars, zvars, svars, bvars, kvars, gvars, ivars, wvars>>

\* ---------------------------------------------------------- utilities
Perms == {p \in [1..NumEffects -> Effects] : \A i, j \in 1..NumEffects : i # j => p[i] # p[j]}

SeqOf(set, order) == SelectSeq(order, LAMBDA e : e \in set)

NoSeen == [s \in Signals |-> NoVal]

\* The state the operators below thread through one client call.
St ==
    [value |-> value, subscribers |-> subscribers, subscriptions |-> subscriptions,
     kind |-> kind, disposed |-> disposed, cleanup |-> cleanup,
     currentComputation |-> currentComputation, currentOwner |-> currentOwner,
     batchDepth |-> batchDepth, pendingComputations |-> pendingComputations,
     disposables |-> disposables,
     ran |-> [e \in Effects |-> 0], seen |-> [e \in Effects |-> NoSeen], panicked |-> FALSE,
     notified |-> notified, written |-> written,
     owed |-> owed, atCleanup |-> [e \in Effects |-> "none"], dran |-> dran,
     peeked |-> peeked, afterDispose |-> [skipped |-> {}, ran |-> {}]]

\* ------------------------------------------------------ effect bodies
BodyReads(k, val) ==
    CASE k = "sum" -> {"a", "b"}
      [] k = "cond" -> IF val["a"] # 0 THEN {"a", "b"} ELSE {"a"}
      [] k = "panic" -> {"a"}
      [] k = "once" -> {"a"}
      [] k = "peek" -> IF val["a"] = 0 THEN {"a", "b"} ELSE {"a"}
      [] k = "kill" -> {"a"}
      [] OTHER -> {}

\* the signals the body reads inside Untrack, before its tracked reads
BodyUntracked(k, val) == IF k = "peek" /\ val["a"] # 0 THEN {"b"} ELSE {}

BodyPanics(k, val) == k = "panic" /\ val["a"] = 1

BodyReturnsCleanup(k) == k \in {"sum", "once"}

\* the body calls the DisposeFunc CreateEffect returned for it
BodyDisposes(k, val, e) == k = "once" /\ val["a"] = 1 /\ returned[e]

\* the effects whose DisposeFunc the body calls, other than its own
Victim(e) == (e % NumEffects) + 1

BodyKills(k, val, e) ==
    IF k = "kill" /\ val["a"] = 1 /\ returned[Victim(e)] THEN {Victim(e)} ELSE {}

\* --------------------------------------------------------- signal.go
\* read closure: record the current computation as a subscriber and the
\* signal on the computation (package signals records nothing usable on
\* the computation: it stores a nil key in comp.dependencies).
Read(s, sig) ==
    IF s.currentComputation = NoComp THEN s
    ELSE [s EXCEPT !.subscribers[sig] = @ \cup {s.currentComputation},
                   !.subscriptions[s.currentComputation] =
                       IF impl = "goli" THEN @ \cup {sig} ELSE @]

RECURSIVE ReadAll(_, _)
ReadAll(s, sigs) ==
    IF sigs = {} THEN s
    ELSE LET sig == CHOOSE x \in sigs : TRUE
         IN ReadAll(Read(s, sig), sigs \ {sig})

\* signalValue.unsubscribe for every recorded subscription of e
UnsubscribeAll(s, e) ==
    [s EXCEPT !.subscribers = [sig \in Signals |->
                                  IF sig \in s.subscriptions[e] THEN @[sig] \ {e} ELSE @[sig]],
              !.subscriptions[e] = {}]

\* ---------------------------------------------------------- effect.go
\* Untrack(fn) with fn reading sigs: the current computation is nil while
\* fn runs and is restored by the deferred function
UntrackKeepsTracking(s, sigs) == ReadAll(s, sigs)

Untrack(s, sigs) ==
    LET prevComputation == s.currentComputation
        s1 == ReadAll([s EXCEPT !.currentComputation = NoComp], sigs)
    IN [s1 EXCEPT !.currentComputation = prevComputation]

\* the dispose closure returned by CreateEffect: disposed is set, package
\* goli unsubscribes, and the cleanup held is invoked
Dispose(s, e) ==
    IF s.disposed[e] THEN s
    ELSE LET s1 == [s EXCEPT !.disposed[e] = TRUE, !.cleanup[e] = FALSE]
             s2 == IF impl = "goli" THEN UnsubscribeAll(s1, e) ELSE s1
         IN IF s.cleanup[e]
            THEN [s2 EXCEPT !.owed[e] = @ - 1,
                            !.atCleanup[e] =
                                IF \E sig \in Signals : e \in s2.subscribers[sig]
                                THEN "subscribed" ELSE "unsubscribed"]
            ELSE s2

\* comp.execute past the disposed check: previous cleanup, unsubscription,
\* the tracked run of fn, the new cleanup
ExecuteBody(s, e) ==
         LET s1 == [s EXCEPT !.cleanup[e] = FALSE,
                             !.owed[e] = IF s.cleanup[e] THEN @ - 1 ELSE @,
                             !.afterDispose.ran = IF s.disposed[e] THEN @ \cup {e} ELSE @]
             s2 == IF impl = "goli" THEN UnsubscribeAll(s1, e) ELSE s1
             prevComputation == s2.currentComputation
             s3 == [s2 EXCEPT !.currentComputation = e]
             reads == BodyReads(s.kind[e], s.value)
             untracked == BodyUntracked(s.kind[e], s.value)
             s4 == [ReadAll(Untrack(s3, untracked), reads) EXCEPT
                       !.peeked[e] = untracked \ reads,
                       !.ran[e] = @ + 1,
                       !.seen[e] = [sig \in Signals |->
                                       IF sig \in reads THEN s.value[sig] ELSE NoVal]]
             killed == BodyKills(s.kind[e], s.value, e)
             s5 == IF BodyDisposes(s.kind[e], s.value, e) THEN Dispose(s4, e)
                   ELSE IF killed # {} THEN Dispose(s4, Victim(e))
                   ELSE s4
         IN IF BodyPanics(s.kind[e], s.value)
            THEN [s5 EXCEPT !.panicked = TRUE]
            ELSE [s5 EXCEPT !.currentComputation = prevComputation,
                            !.cleanup[e] = BodyReturnsCleanup(s.kind[e]),
                            !.owed[e] = IF BodyReturnsCleanup(s.kind[e]) THEN @ + 1 ELSE @]

ExecuteNoDisposedCheck(s, e) == ExecuteBody(s, e)

\* comp.execute: a disposed effect does nothing
Execute(s, e) ==
    IF s.disposed[e]
    THEN IF disposed[e] THEN s ELSE [s EXCEPT !.afterDispose.skipped = @ \cup {e}]
    ELSE ExecuteBody(s, e)

RunFirstOnly(s, todo) ==
    IF todo = <<>> \/ s.panicked THEN s ELSE Execute(s, Head(todo))

\* a loop `for _, comp := range ... { comp.execute() }`; a panic leaves it
RECURSIVE RunAll(_, _)
RunAll(s, todo) ==
    IF todo = <<>> \/ s.panicked THEN s
    ELSE RunAll(Execute(s, Head(todo)), Tail(todo))

\* ------------------------------------------------- runtime (part_013)
shouldFlushAlways(s) == TRUE

addPendingOverwrites(s, comps) ==
    [s EXCEPT !.pendingComputations = comps]

incrementBatchDepth(s) == [s EXCEPT !.batchDepth = @ + 1]

\* decrementBatchDepth: the decrement, and the flag it returns
decrementBatchDepth(s) == [s EXCEPT !.batchDepth = @ - 1]

shouldFlush(s) == s.batchDepth = 0

addPendingComputations(s, comps) ==
    [s EXCEPT !.pendingComputations = @ \cup comps]

flushPending(s, order) ==
    LET toRun == SeqOf(s.pendingComputations, order)
    IN RunAll([s EXCEPT !.pendingComputations = {}], toRun)

WriteIgnoringBatch(s, sig, v, order) ==
    RunAll([s EXCEPT !.value[sig] = v], SeqOf(s.subscribers[sig], order))

\* write closure
Write(s, sig, v, order) ==
    LET s1 == [s EXCEPT !.value[sig] = v]
        subs == s.subscribers[sig]
    IN IF s1.batchDepth > 0
       THEN [addPendingComputations(s1, subs) EXCEPT
                !.notified = @ \cup subs, !.written = @ \cup {sig}]
       ELSE RunAll(s1, SeqOf(subs, order))

\* the equality functions given to CreateSignalWithEquals: signal a is
\* created with func(x, y) { return x == y }, signal b with a function that
\* reports every pair equal
Equals(sig, old, new) == sig = "b" \/ old = new

\* a write closure of CreateSignalWithEquals without the equality check
WriteWithEqualsAlwaysWrites(s, sig, v, order) == Write(s, sig, v, order)

\* write closure of CreateSignalWithEquals
WriteWithEquals(s, sig, v, order) ==
    IF Equals(sig, s.value[sig], v) THEN s ELSE Write(s, sig, v, order)

\* ------------------------------------------------------------ panics
\* A panic unwinds every open Batch and CreateRoot of the driver, running
\* their deferred functions, and is recovered at the top: the outermost
\* Batch's defer brings the depth to zero and flushes, CreateRoot's defer
\* restores the owner.
HasBatchFrame == \E i \in 1..Len(stack) : stack[i].t = "batch"

Unwind(s, order) ==
    LET s1 == [s EXCEPT !.currentOwner = NoOwner]
    IN IF HasBatchFrame
       THEN LET f == flushPending([s1 EXCEPT !.batchDepth = 0, !.panicked = FALSE,
                                             !.notified = {}, !.written = {}], order)
            IN [f EXCEPT !.panicked = TRUE]
       ELSE s1

\* ------------------------------------------------------------- commit
Commit(s, op) ==
    /\ value' = s.value
    /\ subscribers' = s.subscribers
    /\ subscriptions' = s.subscriptions
    /\ kind' = s.kind
    /\ disposed' = s.disposed
    /\ cleanup' = s.cleanup
    /\ currentComputation' = s.currentComputation
    /\ currentOwner' = s.currentOwner
    /\ batchDepth' = s.batchDepth
    /\ pendingComputations' = s.pendingComputations
    /\ disposables' = s.disposables
    /\ ran' = s.ran
    /\ seen' = s.seen
    /\ panicked' = s.panicked
    /\ notified' = s.notified
    /\ written' = s.written
    /\ owed' = s.owed
    /\ atCleanup' = s.atCleanup
    /\ owned' = owned \cup {s.disposables[i] : i \in 1..Len(s.disposables)}
    /\ dran' = s.dran
    /\ peeked' = s.peeked
    /\ afterDispose' = s.afterDispose
    /\ lastOp' = op
    /\ impl' = impl
    /\ UNCHANGED notReactive

\* the call returned, or panicked and was recovered at the top
Finish(s, op, order) ==
    IF s.panicked
    THEN /\ Commit(Unwind(s, order), op)
         /\ stack' = <<>>
    ELSE Commit(s, op)

\* ghost record of a client call: the signal and value of a write, the effect
\* of a create or dispose, and for the exit of an outermost batch the signals
\* written in it (wr) and the effects notified in it (nt)
Op(name, sig, eff) ==
    [op |-> name, sig |-> sig, eff |-> eff, val |-> NoVal, wr |-> {}, nt |-> {}]

OpWrite(sig, v) == [Op("write", sig, 0) EXCEPT !.val = v]

OpWriteEq(sig, v) == [Op("writeeq", sig, 0) EXCEPT !.val = v]

OpUnbatch(wr, nt) == [Op("unbatch", "a", 0) EXCEPT !.wr = wr, !.nt = nt]

\* --------------------------------------------------------------- init
RInit ==
    /\ impl \in Impls
    /\ value = [s \in Signals |-> 0]
    /\ subscribers = [s \in Signals |-> {}]
    /\ subscriptions = [e \in Effects |-> {}]
    /\ kind = [e \in Effects |-> "none"]
    /\ disposed = [e \in Effects |-> FALSE]
    /\ cleanup = [e \in Effects |-> FALSE]
    /\ returned = [e \in Effects |-> FALSE]
    /\ currentComputation = NoComp
    /\ currentOwner = NoOwner
    /\ batchDepth = 0
    /\ pendingComputations = {}
    /\ disposables = <<>>
    /\ rootUsed = FALSE
    /\ stack = <<>>
    /\ lastOp = Op("init", "a", 0)
    /\ ran = [e \in Effects |-> 0]
    /\ seen = [e \in Effects |-> NoSeen]
    /\ panicked = FALSE
    /\ notified = {}
    /\ written = {}
    /\ owed = [e \in Effects |-> 0]
    /\ atCleanup = [e \in Effects |-> "none"]
    /\ owned = {}
    /\ dran = [d \in Disposers |-> 0]
    /\ peeked = [e \in Effects |-> {}]
    /\ afterDispose = [skipped |-> {}, ran |-> {}]

\* ------------------------------------------------------------ actions
\* setX(v)
SetSignal ==
    \E sig \in Signals, v \in Values, o1 \in Perms, o2 \in Perms :
        LET s == Write(St, sig, v, o1)
        IN /\ Finish(s, OpWrite(sig, v), o2)
           /\ IF s.panicked THEN TRUE ELSE stack' = stack
           /\ UNCHANGED <<returned, rootUsed>>

\* setX(v) on a signal created with CreateSignalWithEquals
SetSignalWithEquals ==
    \E sig \in Signals, v \in Values, o1 \in Perms, o2 \in Perms :
        LET s == WriteWithEquals(St, sig, v, o1)
        IN /\ Finish(s, OpWriteEq(sig, v), o2)
           /\ IF s.panicked THEN TRUE ELSE stack' = stack
           /\ UNCHANGED <<returned, rootUsed>>

\* Batch(fn): entry, up to the call of fn
BatchEnter ==
    /\ Len(stack) < MaxDepth
    /\ Commit(incrementBatchDepth(St), Op("batch", "a", 0))
    /\ stack' = Append(stack, [t |-> "batch", prev |-> NoOwner])
    /\ UNCHANGED <<returned, rootUsed>>

\* Batch(fn): fn returned, the deferred decrement and flush
BatchExit ==
    /\ stack # <<>>
    /\ stack[Len(stack)].t = "batch"
    /\ \E o1 \in Perms, o2 \in Perms :
        LET d == decrementBatchDepth(St)
            s == IF shouldFlush(d)
                 THEN flushPending([d EXCEPT !.notified = {}, !.written = {}], o1)
                 ELSE d
        IN /\ Finish(s, IF shouldFlush(d) THEN OpUnbatch(written, notified)
                                       ELSE OpUnbatch({}, {}), o2)
           /\ IF s.panicked THEN TRUE ELSE stack' = SubSeq(stack, 1, Len(stack) - 1)
           /\ UNCHANGED <<returned, rootUsed>>

\* CreateEffect(fn): the initial run, the dispose closure, the owner
CreateEffect ==
    \E e \in Effects, k \in Kinds, o2 \in Perms :
        /\ kind[e] = "none"
        /\ \A x \in Effects : x < e => kind[x] # "none"
        /\ LET s == Execute([St EXCEPT !.kind[e] = k], e)
               r == IF s.currentOwner # NoOwner
                    THEN [s EXCEPT !.disposables = Append(@, e)]
                    ELSE s
           IN IF s.panicked
              THEN /\ Finish(s, Op("create", "a", e), o2)
                   /\ UNCHANGED <<returned, rootUsed>>
              ELSE /\ Commit(r, Op("create", "a", e))
                   /\ returned' = [returned EXCEPT ![e] = TRUE]
                   /\ UNCHANGED <<rootUsed, stack>>

\* CreateEffect(fn) with a body that disposes its own effect
CreateOnce ==
    \E e \in Effects :
        /\ kind[e] = "none"
        /\ \A x \in Effects : x < e => kind[x] # "none"
        /\ LET s == Execute([St EXCEPT !.kind[e] = "once"], e)
               r == IF s.currentOwner # NoOwner
                    THEN [s EXCEPT !.disposables = Append(@, e)]
                    ELSE s
           IN /\ Commit(r, Op("create", "a", e))
              /\ returned' = [returned EXCEPT ![e] = TRUE]
              /\ UNCHANGED <<rootUsed, stack>>

\* CreateEffect(fn) with a body that reads inside Untrack
CreatePeek ==
    \E e \in Effects :
        /\ kind[e] = "none"
        /\ \A x \in Effects : x < e => kind[x] # "none"
        /\ LET s == Execute([St EXCEPT !.kind[e] = "peek"], e)
               r == IF s.currentOwner # NoOwner
                    THEN [s EXCEPT !.disposables = Append(@, e)]
                    ELSE s
           IN /\ Commit(r, Op("create", "a", e))
              /\ returned' = [returned EXCEPT ![e] = TRUE]
              /\ UNCHANGED <<rootUsed, stack>>

\* CreateEffect(fn) with a body that disposes the other effect
CreateKiller ==
    \E e \in Effects :
        /\ kind[e] = "none"
        /\ \A x \in Effects : x < e => kind[x] # "none"
        /\ LET s == Execute([St EXCEPT !.kind[e] = "kill"], e)
               r == IF s.currentOwner # NoOwner
                    THEN [s EXCEPT !.disposables = Append(@, e)]
                    ELSE s
           IN /\ Commit(r, Op("create", "a", e))
              /\ returned' = [returned EXCEPT ![e] = TRUE]
              /\ UNCHANGED <<rootUsed, stack>>

\* dispose(), the DisposeFunc of an effect
DisposeEffect ==
    \E e \in Effects :
        /\ returned[e]
        /\ Commit(Dispose(St, e), Op("dispose", "a", e))
        /\ UNCHANGED <<returned, rootUsed, stack>>

\* CreateRoot(fn): entry, up to the call of fn
RootEnter ==
    /\ ~rootUsed
    /\ Len(stack) < MaxDepth
    /\ Commit([St EXCEPT !.currentOwner = RootId], Op("root", "a", 0))
    /\ stack' = Append(stack, [t |-> "root", prev |-> currentOwner])
    /\ rootUsed' = TRUE
    /\ UNCHANGED returned

\* CreateRoot(fn): fn returned, the deferred restore of the owner
RootExit ==
    /\ stack # <<>>
    /\ stack[Len(stack)].t = "root"
    /\ Commit([St EXCEPT !.currentOwner = stack[Len(stack)].prev], Op("unroot", "a", 0))
    /\ stack' = SubSeq(stack, 1, Len(stack) - 1)
    /\ UNCHANGED <<returned, rootUsed>>

\* one entry of Owner.disposables called: an effect's DisposeFunc or the
\* function given to OnCleanup
RunDisposer(s, d) ==
    LET s1 == [s EXCEPT !.dran[d] = @ + 1]
    IN IF d \in Effects THEN Dispose(s1, d) ELSE s1

RECURSIVE DisposeEach(_, _)
DisposeEach(s, ds) ==
    IF ds = <<>> THEN s ELSE DisposeEach(RunDisposer(s, Head(ds)), Tail(ds))

\* a root disposer that leaves Owner.disposables in place
RootDisposerKeepsList(s) == DisposeEach(s, s.disposables)

\* the dispose closure of CreateRoot: the list is taken and emptied, then
\* every entry is called
RootDisposer(s) == DisposeEach([s EXCEPT !.disposables = <<>>], s.disposables)

\* the dispose closure CreateRoot hands to fn
RootDispose ==
    /\ rootUsed
    /\ Commit(RootDisposer(St), Op("rootdispose", "a", 0))
    /\ UNCHANGED <<returned, rootUsed, stack>>

\* OnCleanup(fn): fn is appended to the current owner's disposables
OnCleanup ==
    /\ CallbackId \notin owned
    /\ Commit(IF currentOwner # NoOwner
              THEN [St EXCEPT !.disposables = Append(@, CallbackId)]
              ELSE St,
              Op("oncleanup", "a", 0))
    /\ UNCHANGED <<returned, rootUsed, stack>>

\* ============================================================== focus
\* Focusable 1 is a Link, whose focused flag is a signal of package goli
\* (src/link.go:44); the others are Buttons, whose flag is a signal of
\* package signals (src/button.go:90).  The manager's current signal is of
\* package signals when the manager comes from Manager() (src/focus.go:35)
\* and of package goli when it comes from Runtime.FocusManager().
\* Two effects observe the focus state, one created with each package's
\* CreateEffect; each reads the current focusable and every flag, and is
\* subscribed to the signals of its own package.
Focusables == 1..NumFocus
NoFocus == 0
LinkId == 1

FlagPkg(f) == IF f = LinkId THEN "goli" ELSE "signals"

\* The state threaded through one focus call: depth and pend are the batch
\* depth and the pending observer of package signals, the only package whose
\* Batch src/focus.go calls.
FSt ==
    [registered |-> registered, cur |-> currentFocused, foc |-> focused,
     depth |-> 0, pend |-> FALSE, obs |-> {},
     handler |-> globalKeyHandler, fcalls |-> 0, gcalls |-> 0, consumed |-> FALSE]

Snapshot(fs) == [cur |-> fs.cur, foc |-> fs.foc]

\* the body of an observing effect
Observe(fs) == [fs EXCEPT !.obs = @ \cup {Snapshot(fs)}]

\* the tail of a write closure: subscribers are queued inside a batch of the
\* signal's own package and run at once otherwise
Notify(fs, pkg) ==
    IF pkg = "signals" /\ fs.depth > 0
    THEN [fs EXCEPT !.pend = TRUE]
    ELSE Observe(fs)

\* Button.SetFocused / Link.SetFocused: a write of the flag signal
SetFocused(fs, f, v) == Notify([fs EXCEPT !.foc[f] = v], FlagPkg(f))

\* FocusManager.setCurrentFocused: a write of the current signal
setCurrentFocused(fs, f) == Notify([fs EXCEPT !.cur = f], mgr)

\* signals.BatchVoid around a body
FBatchEnter(fs) == [fs EXCEPT !.depth = @ + 1]

FBatchExit(fs) ==
    LET d == [fs EXCEPT !.depth = @ - 1]
    IN IF d.depth = 0 /\ d.pend THEN Observe([d EXCEPT !.pend = FALSE]) ELSE d

\* FocusManager.RequestFocus
RequestFocus(fs, f) ==
    IF fs.cur = f THEN fs
    ELSE LET b0 == FBatchEnter(fs)
             b1 == IF fs.cur # NoFocus THEN SetFocused(b0, fs.cur, FALSE) ELSE b0
             b2 == SetFocused(b1, f, TRUE)
             b3 == setCurrentFocused(b2, f)
         IN FBatchExit(b3)

\* FocusManager.RequestBlur
RequestBlur(fs, f) ==
    IF fs.cur = f
    THEN FBatchExit(setCurrentFocused(SetFocused(FBatchEnter(fs), f, FALSE), NoFocus))
    ELSE fs

\* FocusManager.Register
Register(fs, f) == [fs EXCEPT !.registered = Append(@, f)]

IndexOf(list, f) ==
    IF \E i \in 1..Len(list) : list[i] = f
    THEN CHOOSE i \in 1..Len(list) : list[i] = f /\ \A j \in 1..(i - 1) : list[j] # f
    ELSE 0

\* an Unregister that hands the focus to the first focusable left
UnregisterMovesFocus(fs, f) ==
    LET i == IndexOf(fs.registered, f)
        r == IF i = 0 THEN fs
             ELSE [fs EXCEPT !.registered =
                       SubSeq(@, 1, i - 1) \o SubSeq(@, i + 1, Len(@))]
    IN IF r.cur = f
       THEN [r EXCEPT !.cur = IF r.registered = <<>> THEN NoFocus ELSE r.registered[1]]
       ELSE r

\* FocusManager.Unregister
Unregister(fs, f) ==
    LET i == IndexOf(fs.registered, f)
        r == IF i = 0 THEN fs
             ELSE [fs EXCEPT !.registered =
                       SubSeq(@, 1, i - 1) \o SubSeq(@, i + 1, Len(@))]
    IN IF r.cur = f THEN setCurrentFocused(r, NoFocus) ELSE r

\* Go's %, which truncates toward zero
GoMod(a, n) == IF a >= 0 THEN a % n ELSE -((-a) % n)

ManagerNextNoWrap(fs) ==
    LET k == Len(fs.registered)
        i == IndexOf(fs.registered, fs.cur)
    IN IF k = 0 THEN fs
       ELSE IF fs.cur = NoFocus THEN RequestFocus(fs, fs.registered[1])
       ELSE RequestFocus(fs, fs.registered[IF i < k THEN i + 1 ELSE k])

\* FocusManager.Next; positions are 0-based in the source, IndexOf - 1 here
ManagerNext(fs) ==
    LET k == Len(fs.registered)
        currentIndex == IndexOf(fs.registered, fs.cur) - 1
    IN IF k = 0 THEN fs
       ELSE IF fs.cur = NoFocus THEN RequestFocus(fs, fs.registered[1])
       ELSE RequestFocus(fs, fs.registered[GoMod(currentIndex + 1, k) + 1])

\* FocusManager.Prev
ManagerPrev(fs) ==
    LET k == Len(fs.registered)
        currentIndex == IndexOf(fs.registered, fs.cur) - 1
    IN IF k = 0 THEN fs
       ELSE IF fs.cur = NoFocus THEN RequestFocus(fs, fs.registered[k])
       ELSE RequestFocus(fs, fs.registered[GoMod(currentIndex - 1 + k, k) + 1])

\* any key other than Tab and Shift-Tab
Keys == {"tab", "shifttab", "x"}

HandleKeyGlobalFirst(fs, key, fv, gv) ==
    IF fs.handler THEN [fs EXCEPT !.gcalls = @ + 1, !.consumed = gv]
    ELSE IF fs.cur # NoFocus
         THEN [fs EXCEPT !.fcalls = @ + 1, !.consumed = fv]
         ELSE fs

\* FocusManager.HandleKey; fv and gv are the verdicts the current focusable's
\* handler and the global handler give when they are asked
HandleKey(fs, key, fv, gv) ==
    IF key = "tab" THEN [ManagerNext(fs) EXCEPT !.consumed = TRUE]
    ELSE IF key = "shifttab" THEN [ManagerPrev(fs) EXCEPT !.consumed = TRUE]
    ELSE LET current == fs.cur
             s1 == IF current # NoFocus THEN [fs EXCEPT !.fcalls = @ + 1] ELSE fs
         IN IF current # NoFocus /\ fv THEN [s1 EXCEPT !.consumed = TRUE]
            ELSE IF s1.handler
                 THEN [s1 EXCEPT !.gcalls = @ + 1, !.consumed = gv]
                 ELSE [s1 EXCEPT !.consumed = FALSE]

\* FocusManager.SetGlobalKeyHandler and the cleanup function it returns
SetGlobalKeyHandler(fs, installed) == [fs EXCEPT !.handler = installed]

\* FocusManager.Clear
Clear(fs) ==
    LET b1 == IF fs.cur # NoFocus THEN SetFocused(fs, fs.cur, FALSE) ELSE fs
        b2 == setCurrentFocused(b1, NoFocus)
    IN [b2 EXCEPT !.registered = <<>>, !.handler = FALSE]

\* ghost record of a focus call: the focusable it was given, and the current
\* focusable and registration list when it was made
FOp(name, f) ==
    [op |-> name, f |-> f, prev |-> currentFocused, before |-> registered]

FCommit(fs, op) ==
    /\ registered' = fs.registered
    /\ currentFocused' = fs.cur
    /\ focused' = fs.foc
    /\ obs' = fs.obs
    /\ fOp' = op
    /\ mgr' = mgr
    /\ globalKeyHandler' = fs.handler
    /\ keyOut' = [consumed |-> fs.consumed, fcalls |-> fs.fcalls, gcalls |-> fs.gcalls,
                  fv |-> FALSE, gv |-> FALSE]
    /\ UNCHANGED notFocus

FInit ==
    /\ registered = <<>>
    /\ currentFocused = NoFocus
    /\ focused = [f \in Focusables |-> FALSE]
    /\ mgr \in Impls
    /\ obs = {}
    /\ fOp = [op |-> "init", f |-> NoFocus, prev |-> NoFocus, before |-> <<>>]
    /\ globalKeyHandler = FALSE
    /\ keyOut = [consumed |-> FALSE, fcalls |-> 0, gcalls |-> 0, fv |-> FALSE, gv |-> FALSE]

\* Register(f); a focusable is not registered while it is registered
DoRegister ==
    \E f \in Focusables :
        /\ IndexOf(registered, f) = 0
        /\ FCommit(Register(FSt, f), FOp("register", f))

\* Unregister(f), f.Dispose()
DoUnregister ==
    \E f \in Focusables : FCommit(Unregister(FSt, f), FOp("unregister", f))

\* RequestFocus(f), f.Focus()
DoRequestFocus ==
    \E f \in Focusables : FCommit(RequestFocus(FSt, f), FOp("focus", f))

\* RequestBlur(f), f.Blur()
DoRequestBlur ==
    \E f \in Focusables : FCommit(RequestBlur(FSt, f), FOp("blur", f))

\* HandleKey(Tab)
DoTab == FCommit(HandleKey(FSt, "tab", FALSE, FALSE), FOp("tab", NoFocus))

\* HandleKey(ShiftTab)
DoShiftTab == FCommit(HandleKey(FSt, "shifttab", FALSE, FALSE), FOp("shifttab", NoFocus))

\* HandleKey(key) for any other key
DoHandleKey ==
    \E fv, gv \in BOOLEAN :
        LET fs == HandleKey(FSt, "x", fv, gv)
        IN /\ registered' = fs.registered
           /\ currentFocused' = fs.cur
           /\ focused' = fs.foc
           /\ obs' = fs.obs
           /\ fOp' = FOp("key", NoFocus)
           /\ keyOut' = [consumed |-> fs.consumed, fcalls |-> fs.fcalls,
                         gcalls |-> fs.gcalls, fv |-> fv, gv |-> gv]
           /\ UNCHANGED <<mgr, globalKeyHandler, notFocus>>

\* SetGlobalKeyHandler(handler), and calling the cleanup it returned
DoSetGlobalKeyHandler ==
    \E installed \in BOOLEAN :
        FCommit(SetGlobalKeyHandler(FSt, installed), FOp("sethandler", NoFocus))

\* Clear()
DoClear == FCommit(Clear(FSt), FOp("clear", NoFocus))

FNext ==
    \/ DoRegister
    \/ DoUnregister
    \/ DoRequestFocus
    \/ DoRequestBlur
    \/ DoTab
    \/ DoShiftTab
    \/ DoHandleKey
    \/ DoSetGlobalKeyHandler

\* =========================================================== pipeline
\* const poolSize in bufferStage and the capacity of the channels made in
\* NewPipeline
poolSize == 4
chanCap == 2

Pool == 0..(poolSize - 1)
NoBuf == poolSize
Stages == {"layout", "buffer", "diff", "output"}

PInit ==
    /\ layoutIn = 0
    /\ bufferIn = 0
    /\ diffIn = <<>>
    /\ outputIn = 0
    /\ closed = {}
    /\ pc = [g \in Stages \cup {"client"} |-> IF g = "client" THEN "running" ELSE "select"]
    /\ poolIdx = 0
    /\ visualBuf = NoBuf
    /\ currentBuf = NoBuf
    /\ prevBuffer = NoBuf

\* PipelineRenderer.Render: the frame is dropped when layoutIn is full
Render ==
    /\ pc["client"] = "running"
    /\ layoutIn < chanCap
    /\ layoutIn' = layoutIn + 1
    /\ UNCHANGED <<bufferIn, diffIn, outputIn, closed, pc, poolIdx, visualBuf,
                   currentBuf, prevBuffer, notPipeline>>

\* PipelineRenderer.Stop: close(p.stop), then wait for p.done
Stop ==
    /\ pc["client"] = "running"
    /\ closed' = closed \cup {"stop"}
    /\ pc' = [pc EXCEPT !["client"] = "waiting"]
    /\ UNCHANGED <<layoutIn, bufferIn, diffIn, outputIn, poolIdx, visualBuf,
                   currentBuf, prevBuffer, notPipeline>>

StopReturns ==
    /\ pc["client"] = "waiting"
    /\ "done" \in closed
    /\ pc' = [pc EXCEPT !["client"] = "stopped"]
    /\ UNCHANGED <<layoutIn, bufferIn, diffIn, outputIn, closed, poolIdx, visualBuf,
                   currentBuf, prevBuffer, notPipeline>>

\* layoutStage: the stop case of the select
LayoutStop ==
    /\ pc["layout"] = "select"
    /\ "stop" \in closed
    /\ closed' = closed \cup {"bufferIn"}
    /\ pc' = [pc EXCEPT !["layout"] = "returned"]
    /\ UNCHANGED <<layoutIn, bufferIn, diffIn, outputIn, poolIdx, visualBuf,
                   currentBuf, prevBuffer, notPipeline>>

\* layoutStage: a VNode is received; an empty one is skipped
LayoutReceive ==
    /\ pc["layout"] = "select"
    /\ layoutIn > 0
    /\ layoutIn' = layoutIn - 1
    /\ \E empty \in BOOLEAN :
           pc' = [pc EXCEPT !["layout"] = IF empty THEN "select" ELSE "send"]
    /\ UNCHANGED <<bufferIn, diffIn, outputIn, closed, poolIdx, visualBuf,
                   currentBuf, prevBuffer, notPipeline>>

\* layoutStage: p.bufferIn <- layoutBox
LayoutSend ==
    /\ pc["layout"] = "send"
    /\ bufferIn < chanCap
    /\ bufferIn' = bufferIn + 1
    /\ pc' = [pc EXCEPT !["layout"] = "select"]
    /\ UNCHANGED <<layoutIn, diffIn, outputIn, closed, poolIdx, visualBuf,
                   currentBuf, prevBuffer, notPipeline>>

\* bufferStage: the stop case, or bufferIn closed and drained
BufferStop ==
    /\ pc["buffer"] = "select"
    /\ "stop" \in closed \/ ("bufferIn" \in closed /\ bufferIn = 0)
    /\ closed' = closed \cup {"diffIn"}
    /\ pc' = [pc EXCEPT !["buffer"] = "returned"]
    /\ UNCHANGED <<layoutIn, bufferIn, diffIn, outputIn, poolIdx, visualBuf,
                   currentBuf, prevBuffer, notPipeline>>

\* bufferStage: a LayoutBox is received and the next pool buffer is taken
BufferReceive ==
    /\ pc["buffer"] = "select"
    /\ bufferIn > 0
    /\ bufferIn' = bufferIn - 1
    /\ visualBuf' = poolIdx
    /\ poolIdx' = (poolIdx + 1) % poolSize
    /\ pc' = [pc EXCEPT !["buffer"] = "paint"]
    /\ UNCHANGED <<layoutIn, diffIn, outputIn, closed, currentBuf, prevBuffer,
                   notPipeline>>

\* bufferStage: Clear, RenderToLogicalBuffer and the visualBuf.Set loop end
BufferPaint ==
    /\ pc["buffer"] = "paint"
    /\ pc' = [pc EXCEPT !["buffer"] = "send"]
    /\ UNCHANGED <<layoutIn, bufferIn, diffIn, outputIn, closed, poolIdx, visualBuf,
                   currentBuf, prevBuffer, notPipeline>>

\* bufferStage: p.diffIn <- visualBuf
BufferSend ==
    /\ pc["buffer"] = "send"
    /\ Len(diffIn) < chanCap
    /\ diffIn' = Append(diffIn, visualBuf)
    /\ pc' = [pc EXCEPT !["buffer"] = "select"]
    /\ UNCHANGED <<layoutIn, bufferIn, outputIn, closed, poolIdx, visualBuf,
                   currentBuf, prevBuffer, notPipeline>>

\* diffStage: the stop case, or diffIn closed and drained
DiffStop ==
    /\ pc["diff"] = "select"
    /\ "stop" \in closed \/ ("diffIn" \in closed /\ diffIn = <<>>)
    /\ closed' = closed \cup {"outputIn"}
    /\ pc' = [pc EXCEPT !["diff"] = "returned"]
    /\ UNCHANGED <<layoutIn, bufferIn, diffIn, outputIn, poolIdx, visualBuf,
                   currentBuf, prevBuffer, notPipeline>>

\* diffStage: a CellBuffer is received
DiffReceive ==
    /\ pc["diff"] = "select"
    /\ diffIn # <<>>
    /\ currentBuf' = Head(diffIn)
    /\ diffIn' = Tail(diffIn)
    /\ pc' = [pc EXCEPT !["diff"] = "diff"]
    /\ UNCHANGED <<layoutIn, bufferIn, outputIn, closed, poolIdx, visualBuf,
                   prevBuffer, notPipeline>>

\* diffStage: the diff against prevBuffer ends and currentBuf is kept; the
\* string is sent on only when it is not empty
DiffCompute ==
    /\ pc["diff"] = "diff"
    /\ prevBuffer' = currentBuf
    /\ \E nonEmpty \in BOOLEAN :
           pc' = [pc EXCEPT !["diff"] = IF nonEmpty THEN "send" ELSE "select"]
    /\ UNCHANGED <<layoutIn, bufferIn, diffIn, outputIn, closed, poolIdx, visualBuf,
                   currentBuf, notPipeline>>

\* diffStage: p.outputIn <- sb.String()
DiffSend ==
    /\ pc["diff"] = "send"
    /\ outputIn < chanCap
    /\ outputIn' = outputIn + 1
    /\ pc' = [pc EXCEPT !["diff"] = "select"]
    /\ UNCHANGED <<layoutIn, bufferIn, diffIn, closed, poolIdx, visualBuf,
                   currentBuf, prevBuffer, notPipeline>>

\* outputStage: the stop case, or outputIn closed and drained
OutputStop ==
    /\ pc["output"] = "select"
    /\ "stop" \in closed \/ ("outputIn" \in closed /\ outputIn = 0)
    /\ closed' = closed \cup {"done"}
    /\ pc' = [pc EXCEPT !["output"] = "returned"]
    /\ UNCHANGED <<layoutIn, bufferIn, diffIn, outputIn, poolIdx, visualBuf,
                   currentBuf, prevBuffer, notPipeline>>

\* outputStage: a string is received
OutputReceive ==
    /\ pc["output"] = "select"
    /\ outputIn > 0
    /\ outputIn' = outputIn - 1
    /\ pc' = [pc EXCEPT !["output"] = "write"]
    /\ UNCHANGED <<layoutIn, bufferIn, diffIn, closed, poolIdx, visualBuf,
                   currentBuf, prevBuffer, notPipeline>>

\* outputStage: io.WriteString returns
OutputWrite ==
    /\ pc["output"] = "write"
    /\ pc' = [pc EXCEPT !["output"] = "select"]
    /\ UNCHANGED <<layoutIn, bufferIn, diffIn, outputIn, closed, poolIdx, visualBuf,
                   currentBuf, prevBuffer, notPipeline>>

LayoutStage == LayoutStop \/ LayoutReceive \/ LayoutSend
BufferStage == BufferStop \/ BufferReceive \/ BufferPaint \/ BufferSend
DiffStage == DiffStop \/ DiffReceive \/ DiffCompute \/ DiffSend
OutputStage == OutputStop \/ OutputReceive \/ OutputWrite

PNext ==
    \/ Render
    \/ Stop
    \/ StopReturns
    \/ LayoutStop
    \/ LayoutReceive
    \/ LayoutSend
    \/ BufferStop
    \/ BufferReceive
    \/ BufferPaint
    \/ BufferSend
    \/ DiffStop
    \/ DiffReceive
    \/ DiffCompute
    \/ DiffSend
    \/ OutputStop
    \/ OutputReceive
    \/ OutputWrite

\* ================================================================ app
Threads == {"main", "input", "signal", "stdout", "stderr"}

\* goroutines that write signals the render effect is subscribed to
Writers == {"input", "stdout", "stderr"}

\* what a panic carries: a value that implements error, or any other value
\* (the unknown-element abort of src/layout.go:442 panics with a string)
PanicValues == {"error", "string"}

NoPanic == [value |-> "none", thread |-> "main", forwarded |-> FALSE]

\* the recover of the render effect: OnError is called when it is installed
\* and the recovered value is an error
Recovered(t, v) == [value |-> v, thread |-> t, forwarded |-> onError /\ v = "error"]

Rendering == {t \in Threads : apc[t] \in {"render", "rerender"}}

AInit ==
    /\ apc = [t \in Threads |-> "start"]
    /\ raw = FALSE
    /\ proc = "running"
    /\ doneClosed = FALSE
    /\ cleanedUp = FALSE
    /\ unmounts = 0
    /\ showLogs = FALSE
    /\ msgsSubscribed = FALSE
    /\ bufId = 0
    /\ onError \in BOOLEAN
    /\ lastPanic = NoPanic

\* Run up to the start of the goroutines: capture started, MakeRaw, Render
\* (the effect's first run), signal handler and input reader started
RunStart ==
    /\ proc = "running"
    /\ apc["main"] = "start"
    /\ raw' = TRUE
    /\ apc' = [t \in Threads |-> IF t = "main" THEN "mount" ELSE "idle"]
    /\ UNCHANGED <<proc, doneClosed, cleanedUp, unmounts, showLogs, msgsSubscribed, bufId,
                   onError, lastPanic, notApp>>

\* OnMount, then <-done; a panic in OnMount runs Run's deferred Restore
RunMount ==
    /\ proc = "running"
    /\ apc["main"] = "mount"
    /\ \E panics \in BOOLEAN :
           IF panics
           THEN /\ raw' = FALSE
                /\ proc' = "crashed"
                /\ apc' = [apc EXCEPT !["main"] = "returned"]
           ELSE /\ apc' = [apc EXCEPT !["main"] = "waiting"]
                /\ UNCHANGED <<raw, proc>>
    /\ UNCHANGED <<doneClosed, cleanedUp, unmounts, showLogs, msgsSubscribed, bufId,
                   onError, lastPanic, notApp>>

\* <-done returns; the deferred ClearScreen, ShowCursor and Restore run
RunReturn ==
    /\ proc = "running"
    /\ apc["main"] = "waiting"
    /\ doneClosed
    /\ raw' = FALSE
    /\ proc' = "exited"
    /\ apc' = [apc EXCEPT !["main"] = "returned"]
    /\ UNCHANGED <<doneClosed, cleanedUp, unmounts, showLogs, msgsSubscribed, bufId,
                   onError, lastPanic, notApp>>

\* input reader: HandleKey(key); a handler writes a signal the effect reads
\* (Ctrl+L toggles showLogs), or panics
InputKey ==
    /\ proc = "running"
    /\ apc["input"] = "idle"
    /\ \E outcome \in {"toggle", "write", "panic"} :
           /\ showLogs' = IF outcome = "toggle" THEN ~showLogs ELSE showLogs
           /\ proc' = IF outcome = "panic" THEN "crashed" ELSE proc
           /\ apc' = IF outcome = "panic" THEN apc
                     ELSE [apc EXCEPT !["input"] = "effect"]
    /\ UNCHANGED <<raw, doneClosed, cleanedUp, unmounts, msgsSubscribed, bufId,
                   onError, lastPanic, notApp>>

\* readPipe: addMessage writes LogCapture.messages
CaptureMessage ==
    /\ proc = "running"
    /\ \E t \in {"stdout", "stderr"} :
           /\ apc[t] = "idle"
           /\ msgsSubscribed
           /\ apc' = [apc EXCEPT ![t] = "effect"]
    /\ UNCHANGED <<raw, proc, doneClosed, cleanedUp, unmounts, showLogs, msgsSubscribed,
                   bufId,                   onError, lastPanic, notApp>>

\* the render effect's body on the writing goroutine: the app function runs
\* (reading messages when the log panel shows) and may panic; doRender
\* returns early when throttled and calls Renderer.Render otherwise
EffectBody ==
    /\ proc = "running"
    /\ \E t \in Writers :
           /\ apc[t] = "effect"
           /\ msgsSubscribed' = (msgsSubscribed \/ showLogs)
           /\ \E outcome \in {"throttled", "render"} \cup PanicValues :
                  /\ apc' = [apc EXCEPT ![t] = IF outcome = "render" THEN "render"
                                                ELSE "idle"]
                  /\ lastPanic' = IF outcome \in PanicValues THEN Recovered(t, outcome)
                                  ELSE NoPanic
    /\ UNCHANGED <<raw, proc, doneClosed, cleanedUp, unmounts, showLogs, bufId, onError,
                   notApp>>

\* Renderer.Render returns to the effect, or layout or paint panics and the
\* effect recovers
RenderEnd ==
    /\ proc = "running"
    /\ \E t \in Writers :
           /\ apc[t] = "render"
           /\ apc' = [apc EXCEPT ![t] = "idle"]
           /\ \E panics \in BOOLEAN :
                  lastPanic' = IF panics THEN Recovered(t, "string") ELSE NoPanic
    /\ UNCHANGED <<raw, proc, doneClosed, cleanedUp, unmounts, showLogs, msgsSubscribed,
                   bufId,                   onError, notApp>>

\* signal handler, SIGWINCH: App.Resize replaces the buffers, then rerender
SignalResize ==
    /\ proc = "running"
    /\ apc["signal"] = "idle"
    /\ bufId' = 1 - bufId
    /\ \E throttled \in BOOLEAN :
           apc' = [apc EXCEPT !["signal"] = IF throttled THEN "idle" ELSE "rerender"]
    /\ UNCHANGED <<raw, proc, doneClosed, cleanedUp, unmounts, showLogs, msgsSubscribed,
                   onError, lastPanic, notApp>>

\* the Render of rerender returns, or panics outside any recover
RerenderEnd ==
    /\ proc = "running"
    /\ apc["signal"] = "rerender"
    /\ \E panics \in BOOLEAN :
           /\ proc' = IF panics THEN "crashed" ELSE proc
           /\ apc' = IF panics THEN apc ELSE [apc EXCEPT !["signal"] = "idle"]
    /\ UNCHANGED <<raw, doneClosed, cleanedUp, unmounts, showLogs, msgsSubscribed, bufId,
                   onError, lastPanic, notApp>>

\* Ctrl+C on the input reader (or App.Quit called from a key handler), SIGINT
\* or SIGTERM on the signal handler: cleanup() begins by reading cleanedUp
CleanupCheck ==
    /\ proc = "running"
    /\ \E t \in {"input", "signal"} :
           /\ apc[t] = "idle"
           /\ apc' = [apc EXCEPT ![t] = IF cleanedUp THEN "returned" ELSE "cleanup"]
    /\ UNCHANGED <<raw, proc, doneClosed, cleanedUp, unmounts, showLogs, msgsSubscribed,
                   bufId,                   onError, lastPanic, notApp>>

\* the rest of cleanup(): cleanedUp = true, capture stopped, root disposed,
\* OnUnmount called, close(done); closing a closed channel panics
CleanupRun ==
    /\ proc = "running"
    /\ \E t \in {"input", "signal"} :
           /\ apc[t] = "cleanup"
           /\ cleanedUp' = TRUE
           /\ unmounts' = unmounts + 1
           /\ IF doneClosed
              THEN /\ proc' = "crashed"
                   /\ UNCHANGED <<apc, doneClosed>>
              ELSE /\ doneClosed' = TRUE
                   /\ apc' = [apc EXCEPT ![t] = "returned"]
                   /\ UNCHANGED proc
    /\ UNCHANGED <<raw, showLogs, msgsSubscribed, bufId, onError, lastPanic, notApp>>

ANext ==
    \/ RunStart
    \/ RunMount
    \/ RunReturn
    \/ InputKey
    \/ CaptureMessage
    \/ EffectBody
    \/ RenderEnd
    \/ SignalResize
    \/ RerenderEnd
    \/ CleanupCheck
    \/ CleanupRun

\* =============================================================== diff
\* A Cell is a rune and a Style; three cells stand for all: the empty cell,
\* a styled single-width rune and a double-width rune.
EmptyCell == [ch |-> " ", bold |-> FALSE]
Cells == {EmptyCell, [ch |-> "a", bold |-> TRUE], [ch |-> "W", bold |-> FALSE]}

\* display width of a rune in terminal columns (go-runewidth)
RuneWidth(ch) == IF ch = "W" THEN 2 ELSE 1

\* a CellBuffer: rows of cells; positions are 0-based as in the source
NewCellBuffer(w, h) == [y \in 1..h |-> [x \in 1..w |-> EmptyCell]]
BufWidth(buf) == IF Len(buf) = 0 THEN 0 ELSE Len(buf[1])
BufHeight(buf) == Len(buf)
CellGet(buf, x, y) ==
    IF x >= 0 /\ x < BufWidth(buf) /\ y >= 0 /\ y < BufHeight(buf)
    THEN buf[y + 1][x + 1] ELSE EmptyCell

Min(a, b) == IF a < b THEN a ELSE b

\* the positions x0 <= x < x1, y0 <= y < y1 in the order of the nested loops
RowMajor(x0, x1, y0, y1) ==
    IF x1 <= x0 \/ y1 <= y0 THEN <<>>
    ELSE [i \in 1..((x1 - x0) * (y1 - y0)) |->
              [x |-> x0 + ((i - 1) % (x1 - x0)), y |-> y0 + ((i - 1) \div (x1 - x0))]]

\* DiffBuffers
DiffBuffers(from, to) ==
    LET width == Min(BufWidth(from), BufWidth(to))
        height == Min(BufHeight(from), BufHeight(to))
        overlap == SelectSeq(RowMajor(0, width, 0, height),
                             LAMBDA p : CellGet(from, p.x, p.y) # CellGet(to, p.x, p.y))
        newRows == RowMajor(0, BufWidth(to), height, BufHeight(to))
        newCols == RowMajor(width, BufWidth(to), 0, height)
        ps == overlap \o newRows \o newCols
    IN [i \in 1..Len(ps) |-> [x |-> ps[i].x, y |-> ps[i].y, cell |-> CellGet(to, ps[i].x, ps[i].y)]]

\* GroupChangesByRow: the changes of row y, sorted by x
RECURSIVE SortByX(_)
SortByX(cs) ==
    IF cs = <<>> THEN <<>>
    ELSE LET i == CHOOSE i \in 1..Len(cs) : \A j \in 1..Len(cs) : cs[i].x <= cs[j].x
         IN <<cs[i]>> \o SortByX(SubSeq(cs, 1, i - 1) \o SubSeq(cs, i + 1, Len(cs)))

RowChanges(changes, y) == SortByX(SelectSeq(changes, LAMBDA c : c.y = y))

\* the inner loop of FindRuns: runs closed so far and the current run
RECURSIVE RunsOfRow(_, _, _)
RunsOfRow(rowChanges, runs, currentRun) ==
    IF rowChanges = <<>> THEN runs \o <<currentRun>>
    ELSE LET change == Head(rowChanges)
         IN IF change.x = currentRun.x + Len(currentRun.cells)
            THEN RunsOfRow(Tail(rowChanges), runs,
                           [currentRun EXCEPT !.cells = Append(@, change.cell)])
            ELSE RunsOfRow(Tail(rowChanges), Append(runs, currentRun),
                           [x |-> change.x, y |-> change.y, cells |-> <<change.cell>>])

\* FindRuns: rows in ascending order
RECURSIVE FindRunsFrom(_, _, _)
FindRunsFrom(changes, y, maxY) ==
    IF y > maxY THEN <<>>
    ELSE LET rowChanges == RowChanges(changes, y)
             here == IF rowChanges = <<>> THEN <<>>
                     ELSE RunsOfRow(Tail(rowChanges), <<>>,
                                    [x |-> rowChanges[1].x, y |-> y,
                                     cells |-> <<rowChanges[1].cell>>])
         IN here \o FindRunsFrom(changes, y + 1, maxY)

FindRuns(changes) ==
    IF changes = <<>> THEN <<>>
    ELSE LET ys == {changes[i].y : i \in 1..Len(changes)}
             maxY == CHOOSE y \in ys : \A z \in ys : z <= y
         IN FindRunsFrom(changes, 0, maxY)

\* the escape sequences, as tokens: cursor position (1-based as on the
\* wire), reset followed by the style's attributes, and a rune
MoveCursor(x, y) == [t |-> "move", row |-> y + 1, col |-> x + 1, bold |-> FALSE, ch |-> " "]
ResetAndStyle(bold) == [t |-> "sgr", row |-> 0, col |-> 0, bold |-> bold, ch |-> " "]
WriteRune(ch) == [t |-> "put", row |-> 0, col |-> 0, bold |-> FALSE, ch |-> ch]

\* RunToAnsi: the style is emitted for the first cell and whenever it changes
RECURSIVE CellsToAnsi(_, _, _)
CellsToAnsi(cells, styled, currentBold) ==
    IF cells = <<>> THEN <<>>
    ELSE LET c == Head(cells)
             styleChanged == ~styled \/ currentBold # c.bold
         IN (IF styleChanged THEN <<ResetAndStyle(c.bold)>> ELSE <<>>)
                \o <<WriteRune(c.ch)>> \o CellsToAnsi(Tail(cells), TRUE, c.bold)

RunToAnsi(run) == <<MoveCursor(run.x, run.y)>> \o CellsToAnsi(run.cells, FALSE, FALSE)

\* RunsToAnsi: every run, then a reset
RECURSIVE RunsBody(_)
RunsBody(runs) ==
    IF runs = <<>> THEN <<>> ELSE RunToAnsi(Head(runs)) \o RunsBody(Tail(runs))

RunsToAnsi(runs) == RunsBody(runs) \o <<ResetAndStyle(FALSE)>>

\* Renderer.Render's diff path: nothing is written when nothing changed
DiffOutput(from, to) ==
    LET changes == DiffBuffers(from, to)
    IN IF Len(changes) > 0 THEN RunsToAnsi(FindRuns(changes)) ELSE <<>>

\* ---- the terminal
\* the right half of a double-width rune on the display
Cont == [ch |-> "cont", bold |-> FALSE]

\* a column is covered when the rune to its left is double-width
RECURSIVE Covered(_, _)
Covered(row, x) ==
    IF x <= 1 THEN FALSE
    ELSE ~Covered(row, x - 1) /\ RuneWidth(row[x - 1].ch) = 2

\* what a terminal showing a buffer shows
Show(buf) ==
    [y \in 1..Len(buf) |->
        [x \in 1..Len(buf[y]) |-> IF Covered(buf[y], x) THEN Cont ELSE buf[y][x]]]

\* a rune written at the cursor: it replaces what it lands on, a
\* double-width rune also takes the next column, and the other half of a
\* double-width rune that is partly overwritten is blanked; writes past the
\* right edge are dropped
PutRune(term, ch) ==
    LET w == Len(term.d[1])
        r == term.row
        c == term.col
        rw == RuneWidth(ch)
        old == term.d[r]
        new == [x \in 1..w |->
                   IF x = c THEN [ch |-> ch, bold |-> term.bold]
                   ELSE IF x = c + 1 /\ rw = 2 THEN Cont
                   ELSE IF x = c - 1 /\ old[c] = Cont THEN EmptyCell
                   ELSE IF x = c + rw /\ old[x] = Cont THEN EmptyCell
                   ELSE old[x]]
    IN IF c > w THEN term
       ELSE [term EXCEPT !.d[r] = new, !.col = c + rw]

\* the terminal's reaction to one token; the cursor is clamped to the screen
Interpret(term, tok) ==
    CASE tok.t = "move" ->
             [term EXCEPT !.row = Min(tok.row, Len(term.d)),
                          !.col = Min(tok.col, Len(term.d[1]))]
      [] tok.t = "sgr" -> [term EXCEPT !.bold = tok.bold]
      [] OTHER -> PutRune(term, tok.ch)

RECURSIVE Feed(_, _)
Feed(term, toks) ==
    IF toks = <<>> THEN term ELSE Feed(Interpret(term, Head(toks)), Tail(toks))

\* the display after the output is written to a terminal showing d
Apply(d, toks) == Feed([d |-> d, row |-> 1, col |-> 1, bold |-> FALSE], toks).d

AllBuffers == [1..BufH -> [1..BufW -> Cells]]

DInit ==
    /\ bufFrom \in AllBuffers
    /\ bufTo \in AllBuffers
    /\ display = Show(bufFrom)
    /\ ansi = <<>>
    /\ dstage = "input"

DIdle ==
    /\ bufFrom = NewCellBuffer(BufW, BufH)
    /\ bufTo = NewCellBuffer(BufW, BufH)
    /\ display = Show(bufFrom)
    /\ ansi = <<>>
    /\ dstage = "input"

\* one frame through the diff path: diff, runs, encoding, terminal
EmitFrame ==
    /\ dstage = "input"
    /\ ansi' = DiffOutput(bufFrom, bufTo)
    /\ display' = Apply(display, ansi')
    /\ dstage' = "applied"
    /\ UNCHANGED <<bufFrom, bufTo, notDiff>>

\* the next frame is diffed against the one just shown
NextFrame ==
    /\ dstage = "applied"
    /\ bufFrom' = bufTo
    /\ bufTo' \in {bufFrom, NewCellBuffer(BufW, BufH)}
    /\ display' = Show(bufTo)
    /\ ansi' = <<>>
    /\ dstage' = "input"
    /\ UNCHANGED notDiff

DNext ==
    \/ EmitFrame
    \/ NextFrame

\* ============================================================= reflow
Max(a, b) == IF a > b THEN a ELSE b

\* the chunks of a row that lose the cells after the last full chunk
RECURSIVE ChunksWholeOnly(_, _)
ChunksWholeOnly(cells, w) ==
    IF Len(cells) < w THEN <<>>
    ELSE <<SubSeq(cells, 1, w)>> \o ChunksWholeOnly(SubSeq(cells, w + 1, Len(cells)), w)

\* the loop "for i := 0; i < len(row.Cells); i += terminalWidth"
RECURSIVE Chunks(_, _)
Chunks(cells, w) ==
    IF cells = <<>> THEN <<>>
    ELSE <<SubSeq(cells, 1, Min(w, Len(cells)))>>
             \o Chunks(SubSeq(cells, w + 1, Len(cells)), w)

\* the loop over the logical rows: an empty row is one empty visual row
RECURSIVE ReflowFrom(_, _, _, _)
ReflowFrom(rows, w, y, acc) ==
    IF y > Len(rows) THEN acc
    ELSE ReflowFrom(rows, w, y + 1,
             [Rows |-> acc.Rows \o (IF rows[y] = <<>> THEN << <<>> >> ELSE Chunks(rows[y], w)),
              LogicalToVisual |-> Append(acc.LogicalToVisual, Len(acc.Rows))])

\* LogicalBuffer.ToVisualRows
ToVisualRows(rows, w) == ReflowFrom(rows, w, 1, [Rows |-> <<>>, LogicalToVisual |-> <<>>])

NoRows == [Rows |-> <<>>, LogicalToVisual |-> <<>>]

RowCells == {EmptyCell, [ch |-> "a", bold |-> TRUE]}
RECURSIVE RowsUpTo(_)
RowsUpTo(n) == IF n = 0 THEN {<<>>} ELSE RowsUpTo(n - 1) \cup [1..n -> RowCells]

LInit ==
    /\ \E h \in 1..MaxRows : lrows \in [1..h -> RowsUpTo(MaxRowLen)]
    /\ termWidth \in 1..MaxTermWidth
    /\ vrows = NoRows

LIdle ==
    /\ lrows = << <<>> >>
    /\ termWidth = 1
    /\ vrows = NoRows

Reflow ==
    /\ vrows = NoRows
    /\ vrows' = ToVisualRows(lrows, termWidth)
    /\ UNCHANGED <<lrows, termWidth, notReflow>>

\* LogicalBuffer.Clear: the rows are emptied, the height stays
ClearLogical ==
    /\ vrows # NoRows
    /\ lrows' = [y \in 1..Len(lrows) |-> <<>>]
    /\ vrows' = NoRows
    /\ UNCHANGED <<termWidth, notReflow>>

LNext ==
    \/ Reflow
    \/ ClearLogical

\* =========================================================== renderer
\* what a layout paints: its rows, of which the empty ones are never Set
FrameRows == {<<>>, <<[ch |-> "a", bold |-> TRUE]>>,
              [x \in 1..(TermW + 1) |-> [ch |-> "a", bold |-> TRUE]]}
Frames == UNION {[1..h -> FrameRows] : h \in 1..(TermH + 1)}

\* ghost: the path of the last frame, the rows its runs target and the
\* height of the frame's own layout
NoEmit == [path |-> "none", ys |-> {}, own |-> 0]

\* RenderToLogicalBuffer on a cleared LogicalBuffer of height h: Set grows
\* the buffer to the last row that receives a cell
Paint(h, frame) ==
    LET painted == {y \in 1..Len(frame) : frame[y] # <<>>}
        last == IF painted = {} THEN 0 ELSE CHOOSE y \in painted : \A z \in painted : z <= y
    IN [y \in 1..Max(h, last) |-> IF y <= Len(frame) THEN frame[y] ELSE <<>>]

\* "Copy all visual rows": CellBuffer.Set drops what is out of bounds
CopyRows(buf, rows) ==
    [y \in 1..BufHeight(buf) |->
        [x \in 1..BufWidth(buf) |->
            IF y <= Len(rows) /\ x <= Len(rows[y]) THEN rows[y][x] ELSE buf[y][x]]]

NInit ==
    /\ rHeight = TermH
    /\ logicalH = [current |-> TermH, next |-> TermH]
    /\ currentVisual = NewCellBuffer(TermW, TermH)
    /\ nextVisual = NewCellBuffer(TermW, TermH)
    /\ isFirstRender = TRUE
    /\ emitted = NoEmit

\* Renderer.Render
RendererRender(frame) ==
    LET nextLogical == Paint(logicalH.next, frame)
        contentHeight == Max(Len(nextLogical), Len(frame))
        grow == contentHeight > BufHeight(nextVisual)
        cleared == IF grow THEN NewCellBuffer(TermW, contentHeight)
                   ELSE NewCellBuffer(BufWidth(nextVisual), BufHeight(nextVisual))
        current == IF grow THEN NewCellBuffer(TermW, contentHeight) ELSE currentVisual
        filled == CopyRows(cleared, ToVisualRows(nextLogical, TermW).Rows)
        changes == DiffBuffers(current, filled)
        runs == FindRuns(changes)
    IN /\ emitted' = IF contentHeight > rHeight
                     THEN [path |-> "dump", ys |-> 0..(BufHeight(filled) - 1),
                           own |-> Len(frame)]
                     ELSE [path |-> "diff", ys |-> {runs[i].y : i \in 1..Len(runs)},
                           own |-> Len(frame)]
       /\ isFirstRender' = FALSE
       /\ logicalH' = [current |-> Len(nextLogical), next |-> logicalH.current]
       /\ currentVisual' = filled
       /\ nextVisual' = current
       /\ UNCHANGED <<rHeight, notRenderer>>

RenderFrame == \E frame \in Frames : RendererRender(frame)

\* Renderer.Resize
RendererResize ==
    \E height \in 1..TermH :
        /\ rHeight' = height
        /\ logicalH' = [current |-> height, next |-> height]
        /\ currentVisual' = NewCellBuffer(TermW, height)
        /\ nextVisual' = NewCellBuffer(TermW, height)
        /\ isFirstRender' = TRUE
        /\ emitted' = NoEmit
        /\ UNCHANGED notRenderer

NNext ==
    \/ RenderFrame
    \/ RendererResize

\* =============================================================== flex
RECURSIVE SumSeq(_)
SumSeq(q) == IF q = <<>> THEN 0 ELSE Head(q) + SumSeq(Tail(q))

\* totalMainSize without margins: the sizes and a gap between neighbours
TotalMainSize(children, gap) ==
    SumSeq([i \in 1..Len(children) |-> children[i].size]) + gap * (Len(children) - 1)

\* growValues: a child with an explicit main-axis size does not grow
GrowValues(children) ==
    [i \in 1..Len(children) |-> IF children[i].explicit THEN 0 ELSE children[i].grow]

\* extraSpace
ExtraSpace(totalGrow, availableMain, totalMainSize) ==
    IF totalGrow > 0 /\ availableMain > totalMainSize
    THEN availableMain - totalMainSize ELSE 0

\* the first loop: share := (extraSpace * growValues[i]) / totalGrow
FloorShares(growValues, extraSpace, totalGrow) ==
    [i \in 1..Len(growValues) |->
        IF growValues[i] > 0 THEN (extraSpace * growValues[i]) \div totalGrow ELSE 0]

\* a second loop that hands out nothing
HandOutNothing(shares, growValues, i, remainingSpace) == shares

\* the second loop: one more cell to each growing child, in order, until
\* the remainder is exhausted
RECURSIVE HandOut(_, _, _, _)
HandOut(shares, growValues, i, remainingSpace) ==
    IF i > Len(shares) \/ remainingSpace <= 0 THEN shares
    ELSE IF growValues[i] > 0
         THEN HandOut([shares EXCEPT ![i] = @ + 1], growValues, i + 1, remainingSpace - 1)
         ELSE HandOut(shares, growValues, i + 1, remainingSpace)

\* growShares
GrowShares(growValues, extraSpace) ==
    LET totalGrow == SumSeq(growValues)
    IN IF totalGrow > 0 /\ extraSpace > 0
       THEN LET shares == FloorShares(growValues, extraSpace, totalGrow)
            IN HandOut(shares, growValues, 1, extraSpace - SumSeq(shares))
       ELSE [i \in 1..Len(growValues) |-> 0]

FlexExtra == ExtraSpace(SumSeq(GrowValues(flexChildren)), flexAvail,
                        TotalMainSize(flexChildren, flexGap))

\* childMainSize after "childMainSize += growShares[i]"
ChildMainSizes ==
    [i \in 1..Len(flexChildren) |-> flexChildren[i].size + growShares[i]]

FlexChild == [size : 0..MaxSize, grow : 0..MaxGrow, explicit : BOOLEAN]

XInit ==
    /\ \E n \in 1..MaxChildren : flexChildren \in [1..n -> FlexChild]
    /\ flexAvail \in 0..MaxMain
    /\ flexGap \in 0..1
    /\ growShares = <<>>

XIdle ==
    /\ flexChildren = <<[size |-> 0, grow |-> 0, explicit |-> FALSE]>>
    /\ flexAvail = 0
    /\ flexGap = 0
    /\ growShares = <<>>

\* layoutFlexChildren up to the grow shares
DistributeGrow ==
    /\ growShares = <<>>
    /\ growShares' = GrowShares(GrowValues(flexChildren), FlexExtra)
    /\ UNCHANGED <<flexChildren, flexAvail, flexGap, notFlex>>

\* the next layout pass of the same children in a container one cell wider
Relayout ==
    /\ growShares # <<>>
    /\ flexAvail < MaxMain
    /\ flexAvail' = flexAvail + 1
    /\ growShares' = <<>>
    /\ UNCHANGED <<flexChildren, flexGap, notFlex>>

XNext ==
    \/ DistributeGrow
    \/ Relayout

\* ============================================================ z-index
Swap(boxes, i, j) == [boxes EXCEPT ![i] = boxes[j], ![j] = boxes[i]]

\* sortByZIndex: for i, for j > i, swap when boxes[i].ZIndex > boxes[j].ZIndex
\* (positions are 1-based here)
RECURSIVE sortByZIndexFrom(_, _, _)
sortByZIndexFrom(boxes, i, j) ==
    IF i > Len(boxes) - 1 THEN boxes
    ELSE IF j > Len(boxes) THEN sortByZIndexFrom(boxes, i + 1, i + 2)
    ELSE sortByZIndexFrom(IF boxes[i].z > boxes[j].z THEN Swap(boxes, i, j) ELSE boxes,
                          i, j + 1)

sortByZIndex(boxes) == sortByZIndexFrom(boxes, 1, 2)

\* a child of the root laid out in the flex flow
FlexBox == [id |-> 0, z |-> 0, abs |-> FALSE]

\* absolute boxes are numbered in collection order
AbsoluteLists ==
    UNION {{[i \in 1..n |-> [id |-> i, z |-> zs[i], abs |-> TRUE]] : zs \in [1..n -> 0..MaxZ]}
               : n \in 0..MaxBoxes}

ZInit ==
    /\ allAbsolute \in AbsoluteLists
    /\ flexCount \in 0..1
    /\ newChildren = <<>>

ZIdle ==
    /\ allAbsolute = <<>>
    /\ flexCount = 0
    /\ newChildren = <<>>

\* ComputeLayout after layoutNode: sort, then children followed by the
\* absolute boxes
MergeAbsolute ==
    /\ newChildren = <<>>
    /\ flexCount + Len(allAbsolute) > 0
    /\ newChildren' = [i \in 1..flexCount |-> FlexBox] \o sortByZIndex(allAbsolute)
    /\ UNCHANGED <<allAbsolute, flexCount, notZ>>

\* the next frame's ComputeLayout on the same tree
NextLayout ==
    /\ newChildren # <<>>
    /\ newChildren' = <<>>
    /\ UNCHANGED <<allAbsolute, flexCount, notZ>>

ZNext ==
    \/ MergeAbsolute
    \/ NextLayout

\* ============================================================== styles
\* Color: ColorNone and one named colour; *RGB: nil and one 24-bit colour
Colors == {"ColorNone", "ColorRed"}
RGBs == {"nil", "rgb"}
Flags == {"Bold", "Dim", "Italic", "Underline", "Inverse", "Strikethrough"}

EmptyStyle ==
    [Color |-> "ColorNone", Background |-> "ColorNone",
     ColorRGB |-> "nil", BackgroundRGB |-> "nil",
     Bold |-> FALSE, Dim |-> FALSE, Italic |-> FALSE,
     Underline |-> FALSE, Inverse |-> FALSE, Strikethrough |-> FALSE]

\* the styles drawn: every colour channel, two of the six flags
Styles ==
    {[EmptyStyle EXCEPT !.Color = c, !.ColorRGB = crgb,
                        !.Background = b, !.BackgroundRGB = brgb,
                        !.Bold = bold, !.Inverse = inv] :
        c \in Colors, crgb \in RGBs, b \in Colors, brgb \in RGBs,
        bold \in BOOLEAN, inv \in BOOLEAN}

HasColor(s) == s.Color # "ColorNone" \/ s.ColorRGB # "nil"
HasBackground(s) == s.Background # "ColorNone" \/ s.BackgroundRGB # "nil"

\* Style.Merge
Merge(base, overlay) ==
    LET r1 == IF overlay.Color # "ColorNone"
              THEN [base EXCEPT !.Color = overlay.Color, !.ColorRGB = overlay.ColorRGB]
              ELSE base
        r2 == IF overlay.Background # "ColorNone"
              THEN [r1 EXCEPT !.Background = overlay.Background,
                              !.BackgroundRGB = overlay.BackgroundRGB]
              ELSE r1
    IN  [r2 EXCEPT !.Bold = r2.Bold \/ overlay.Bold,
                   !.Dim = r2.Dim \/ overlay.Dim,
                   !.Italic = r2.Italic \/ overlay.Italic,
                   !.Underline = r2.Underline \/ overlay.Underline,
                   !.Inverse = r2.Inverse \/ overlay.Inverse,
                   !.Strikethrough = r2.Strikethrough \/ overlay.Strikethrough]

SInit ==
    /\ mergeBase \in Styles
    /\ mergeOverlay \in Styles
    /\ mergeResult = <<>>

SIdle ==
    /\ mergeBase = EmptyStyle
    /\ mergeOverlay = EmptyStyle
    /\ mergeResult = <<>>

\* result := base.Merge(overlay)
MergeStyles ==
    /\ mergeResult = <<>>
    /\ mergeResult' = <<Merge(mergeBase, mergeOverlay)>>
    /\ UNCHANGED <<mergeBase, mergeOverlay, notStyle>>

\* the result becomes the base of the next merge, as in SetMerge on a cell
MergeAgain ==
    /\ mergeResult # <<>>
    /\ mergeBase' = mergeResult[1]
    /\ mergeOverlay' \in {EmptyStyle, mergeBase}
    /\ mergeResult' = <<>>
    /\ UNCHANGED notStyle

SNext ==
    \/ MergeStyles
    \/ MergeAgain

\* ====================================================== logical buffer
StyledEmptyCell == [Char |-> " ", Style |-> EmptyStyle]

New(char, style) == [Char |-> char, Style |-> style]

NilRows == [y \in {} |-> <<>>]

NewLogicalBuffer(height) == [height |-> height, rows |-> NilRows]

CellsOfRow(b, y) == IF y \in DOMAIN b.rows THEN b.rows[y] ELSE <<>>

\* grow the buffer to hold row y, extend the row to hold column x, and put c
\* there (columns are 0-based in the code, 1-based in the sequence)
GrowAndPut(b, x, y, c) ==
    LET row == CellsOfRow(b, y)
        extended == row \o [i \in 1..(x + 1 - Len(row)) |-> StyledEmptyCell]
        put == [extended EXCEPT ![x + 1] = c]
    IN  [height |-> IF y >= b.height THEN y + 1 ELSE b.height,
         rows |-> [r \in DOMAIN b.rows \cup {y} |->
                       IF r = y THEN put ELSE b.rows[r]]]

\* a variant without the cap
SetUncapped(b, x, y, c) ==
    IF x < 0 \/ y < 0 THEN b ELSE GrowAndPut(b, x, y, c)

\* LogicalBuffer.Set
Set(b, x, y, c) ==
    IF x < 0 \/ y < 0 \/ y >= MaxBufferHeight THEN b
    ELSE GrowAndPut(b, x, y, c)

\* LogicalBuffer.SetMerge
SetMerge(b, x, y, c) ==
    IF x < 0 \/ y < 0 \/ y >= MaxBufferHeight THEN b
    ELSE LET row == CellsOfRow(b, y)
             existing == IF x + 1 <= Len(row) THEN row[x + 1] ELSE StyledEmptyCell
             merged == Merge(existing.Style, c.Style)
             mergedStyle ==
                 IF ~HasBackground(c.Style) /\ HasBackground(existing.Style)
                 THEN [merged EXCEPT !.Background = existing.Style.Background,
                                     !.BackgroundRGB = existing.Style.BackgroundRGB]
                 ELSE merged
         IN  GrowAndPut(b, x, y, New(c.Char, mergedStyle))

Buffer == [height |-> lbHeight, rows |-> lbRows]

\* rows and columns around the guards, heights around the cap
WriteRows == {-1, 0, MaxBufferHeight - 1, MaxBufferHeight, MaxBufferHeight + 1}
WriteCols == {-1, 0, 1}
WriteCells ==
    {New("a", EmptyStyle),
     New("b", [EmptyStyle EXCEPT !.Color = "ColorRed"]),
     New(" ", [EmptyStyle EXCEPT !.Background = "ColorRed"])}
CreatedHeights == {0, 1, MaxBufferHeight, MaxBufferHeight + 1}

BInit ==
    /\ lbCreated \in CreatedHeights
    /\ lbHeight = lbCreated
    /\ lbRows = NilRows
    /\ lbLast = [y |-> -1, before |-> NewLogicalBuffer(lbCreated)]
    /\ lbWrites = 0

BIdle ==
    /\ lbCreated = 0
    /\ lbHeight = 0
    /\ lbRows = NilRows
    /\ lbLast = [y |-> -1, before |-> NewLogicalBuffer(0)]
    /\ lbWrites = 0

Written(b, y) ==
    /\ lbWrites < MaxWrites
    /\ lbHeight' = b.height
    /\ lbRows' = b.rows
    /\ lbLast' = [y |-> y, before |-> Buffer]
    /\ lbWrites' = lbWrites + 1
    /\ UNCHANGED <<lbCreated, notLogical>>

LogicalSet ==
    \E x \in WriteCols, y \in WriteRows, c \in WriteCells :
        Written(Set(Buffer, x, y, c), y)

LogicalSetMerge ==
    \E x \in WriteCols, y \in WriteRows, c \in WriteCells :
        Written(SetMerge(Buffer, x, y, c), y)

BNext ==
    \/ LogicalSet
    \/ LogicalSetMerge

\* ========================================================= manager lock
\* sync.RWMutex is not reentrant: RLock and Lock both wait while the mutex is
\* held for writing, also when the holder is the calling goroutine.  The
\* registered list is kept as a set here; its order plays no part.
\* The effect reads the current signal and then calls GetAll (RLock) or
\* Register (Lock) on the manager.
EffectCalls == {"GetAll", "Register"}
LateFocusable == NumFocus

NoCall == [op |-> "none", pc |-> "idle"]

KIdle ==
    /\ muLocked = FALSE
    /\ lkRegistered = {}
    /\ lkCurrent = NoFocus
    /\ lkEffect = "none"
    /\ lkCall = NoCall
    /\ lkEffPc = "idle"

KInit == KIdle

\* the write closure of the current signal outside a batch, and the flush at
\* the end of BatchVoid: every subscriber is executed before the write returns
RunSubscribers(op) ==
    IF lkEffect = "none"
    THEN /\ lkCall' = NoCall
         /\ lkEffPc' = lkEffPc
    ELSE /\ lkCall' = [op |-> op, pc |-> "effect"]
         /\ lkEffPc' = "acquire"

\* CreateEffect of the observing effect: its first run is at creation
LkCreateEffect ==
    /\ lkCall = NoCall
    /\ lkEffect = "none"
    /\ \E c \in EffectCalls : lkEffect' = c
    /\ lkCall' = [op |-> "create", pc |-> "effect"]
    /\ lkEffPc' = "acquire"
    /\ UNCHANGED <<muLocked, lkRegistered, lkCurrent, notLock>>

\* FocusManager.Register from the application
LkRegister ==
    /\ lkCall = NoCall
    /\ ~muLocked
    /\ \E f \in Focusables : lkRegistered' = lkRegistered \cup {f}
    /\ UNCHANGED <<muLocked, lkCurrent, lkEffect, lkCall, lkEffPc, notLock>>

\* FocusManager.RequestFocus: takes no lock; the write is flushed when the
\* batch ends
LkRequestFocus ==
    /\ lkCall = NoCall
    /\ \E f \in Focusables :
           /\ lkCurrent # f
           /\ lkCurrent' = f
    /\ RunSubscribers("focus")
    /\ UNCHANGED <<muLocked, lkRegistered, lkEffect, notLock>>

\* FocusManager.Unregister up to the end of its signal write: m.mu.Lock(),
\* the removal, and m.setCurrentFocused(nil) when f was current; the
\* deferred Unlock runs when the function returns
LkUnregister ==
    /\ lkCall = NoCall
    /\ ~muLocked
    /\ \E f \in Focusables :
           /\ lkRegistered' = lkRegistered \ {f}
           /\ IF lkCurrent = f
              THEN /\ lkCurrent' = NoFocus
                   /\ RunSubscribers("unregister")
                   /\ muLocked' = (lkEffect # "none")
              ELSE /\ UNCHANGED <<lkCurrent, lkCall, lkEffPc>>
                   /\ muLocked' = FALSE
    /\ UNCHANGED <<lkEffect, notLock>>

\* FocusManager.Clear up to the end of m.setCurrentFocused(nil), which it
\* calls whatever the current focusable is
LkClear ==
    /\ lkCall = NoCall
    /\ ~muLocked
    /\ lkCurrent' = NoFocus
    /\ RunSubscribers("clear")
    /\ muLocked' = (lkEffect # "none")
    /\ lkRegistered' = IF lkEffect = "none" THEN {} ELSE lkRegistered
    /\ UNCHANGED <<lkEffect, notLock>>

\* the effect's manager call: GetAll takes m.mu.RLock(), Register takes
\* m.mu.Lock(); either waits while the mutex is held for writing
LkEffectCall ==
    /\ lkEffPc = "acquire"
    /\ ~muLocked
    /\ lkRegistered' = IF lkEffect = "Register"
                       THEN lkRegistered \cup {LateFocusable} ELSE lkRegistered
    /\ lkEffPc' = "done"
    /\ UNCHANGED <<muLocked, lkCurrent, lkEffect, lkCall, notLock>>

\* the effect has returned: the write returns, the rest of the manager call
\* runs and its deferred Unlock releases the mutex
LkReturn ==
    /\ lkCall.pc = "effect"
    /\ lkEffPc = "done"
    /\ lkEffPc' = "idle"
    /\ lkCall' = NoCall
    /\ muLocked' = FALSE
    /\ lkRegistered' = IF lkCall.op = "clear" THEN {} ELSE lkRegistered
    /\ UNCHANGED <<lkCurrent, lkEffect, notLock>>

\* the effect is disposed
LkDisposeEffect ==
    /\ lkCall = NoCall
    /\ lkEffect # "none"
    /\ lkEffect' = "none"
    /\ UNCHANGED <<muLocked, lkRegistered, lkCurrent, lkCall, lkEffPc, notLock>>

KNext ==
    \/ LkCreateEffect
    \/ LkRegister
    \/ LkRequestFocus
    \/ LkUnregister
    \/ LkClear
    \/ LkEffectCall
    \/ LkReturn
    \/ LkDisposeEffect

\* ======================================================== render effect
\* Render has returned: the effect's first run painted the tree for the
\* initial signal value and set lastRender.
GStart(disabled) ==
    /\ appSig = 0
    /\ currentVNode = 0
    /\ lastFrame = 0
    /\ sinceRender = "within"
    /\ throttleDisabled = disabled
    /\ appDisposed = FALSE
    /\ wrote = "none"
    /\ appWrites = 0

GInit == \E disabled \in BOOLEAN : GStart(disabled)

GIdle == GStart(FALSE)

\* doRender on the tree vnode: skipped within the frame interval unless the
\* throttle is disabled, otherwise lastRender = now and Renderer.Render
DoRender(vnode, cause) ==
    IF ~throttleDisabled /\ sinceRender = "within"
    THEN /\ wrote' = "none"
         /\ UNCHANGED <<lastFrame, sinceRender>>
    ELSE /\ lastFrame' = vnode
         /\ sinceRender' = IF throttleDisabled THEN sinceRender ELSE "within"
         /\ wrote' = cause

\* a write of the signal: the effect, unless disposed, runs the app function
\* and calls doRender
AppWrite ==
    /\ appWrites < MaxAppWrites
    /\ \E v \in 0..MaxFrame :
           /\ v # appSig
           /\ appSig' = v
           /\ IF appDisposed
              THEN /\ wrote' = "none"
                   /\ UNCHANGED <<currentVNode, lastFrame, sinceRender>>
              ELSE /\ currentVNode' = v
                   /\ DoRender(v, "effect")
    /\ appWrites' = appWrites + 1
    /\ UNCHANGED <<throttleDisabled, appDisposed, notRender>>

\* the frame interval passes
AppTick ==
    /\ sinceRender = "within"
    /\ sinceRender' = "beyond"
    /\ wrote' = "none"
    /\ UNCHANGED <<appSig, currentVNode, lastFrame, throttleDisabled, appDisposed,
                   appWrites, notRender>>

\* App.Rerender
AppRerender ==
    /\ DoRender(currentVNode, "rerender")
    /\ UNCHANGED <<appSig, currentVNode, throttleDisabled, appDisposed, appWrites,
                   notRender>>

\* App.Resize: Renderer.Resize, then rerender
AppResize ==
    /\ DoRender(currentVNode, "resize")
    /\ UNCHANGED <<appSig, currentVNode, throttleDisabled, appDisposed, appWrites,
                   notRender>>

\* App.Dispose: the root disposes the render effect
AppDispose ==
    /\ ~appDisposed
    /\ appDisposed' = TRUE
    /\ wrote' = "none"
    /\ UNCHANGED <<appSig, currentVNode, lastFrame, sinceRender, throttleDisabled,
                   appWrites, notRender>>

GNext ==
    \/ AppWrite
    \/ AppTick
    \/ AppRerender
    \/ AppResize

GNextDispose ==
    \/ GNext
    \/ AppDispose

\* ---------------------------------------------------------- the Input
\* bytes of a valueue: a printable byte and the newline
InputChars == {"a", "nl"}

InputValues == UNION {[1..n -> InputChars] : n \in 0..MaxInputLen}

InputKeys == {"left", "right", "home", "end", "backspace", "delete", "ctrlu",
              "shiftenter", "a", "tab"}

Take(s, n) == SubSeq(s, 1, n)

Drop(s, n) == SubSeq(s, n + 1, Len(s))

\* Input.applyMaxLength
applyMaxLength(maxLength, val) ==
    IF maxLength > 0 /\ Len(val) > maxLength THEN Take(val, maxLength) ELSE val

\* Input.clampCursor
clampCursor(pos, length) ==
    IF pos < 0 THEN 0 ELSE IF pos > length THEN length ELSE pos

\* getLineStart: the index after the last newline before pos
getLineStart(val, pos) ==
    LET nls == {i \in 1..pos : val[i] = "nl"}
    IN  IF nls = {} THEN 0 ELSE CHOOSE i \in nls : \A j \in nls : j <= i

\* getLineEnd: the index of the first newline at or after pos
getLineEnd(val, pos) ==
    LET nls == {i \in (pos + 1)..Len(val) : val[i] = "nl"}
    IN  IF nls = {} THEN Len(val)
        ELSE (CHOOSE i \in nls : \A j \in nls : i <= j) - 1

\* a handler that lets the key bubble up returns nil
NilState == [nil |-> TRUE]

InputState(val, cursorPos) == [nil |-> FALSE, Value |-> val, CursorPos |-> cursorPos]

InputNavigationHandler(key, state) ==
    CASE key = "left" ->
           IF state.CursorPos > 0
           THEN InputState(state.Value, state.CursorPos - 1) ELSE state
      [] key = "right" ->
           IF state.CursorPos < Len(state.Value)
           THEN InputState(state.Value, state.CursorPos + 1) ELSE state
      [] key = "home" ->
           InputState(state.Value, getLineStart(state.Value, state.CursorPos))
      [] key = "end" ->
           InputState(state.Value, getLineEnd(state.Value, state.CursorPos))
      [] OTHER -> NilState

InputDeletionHandler(key, state) ==
    CASE key = "backspace" ->
           IF state.CursorPos = 0 THEN state
           ELSE InputState(Take(state.Value, state.CursorPos - 1)
                               \o Drop(state.Value, state.CursorPos),
                           state.CursorPos - 1)
      [] key = "delete" ->
           IF state.CursorPos >= Len(state.Value) THEN state
           ELSE InputState(Take(state.Value, state.CursorPos)
                               \o Drop(state.Value, state.CursorPos + 1),
                           state.CursorPos)
      [] key = "ctrlu" ->
           LET lineStart == getLineStart(state.Value, state.CursorPos)
           IN  InputState(Take(state.Value, lineStart)
                              \o Drop(state.Value, state.CursorPos),
                          lineStart)
      [] OTHER -> NilState

InputShiftEnterHandler(key, state) ==
    IF key = "shiftenter"
    THEN InputState(Take(state.Value, state.CursorPos) \o <<"nl">>
                        \o Drop(state.Value, state.CursorPos),
                    state.CursorPos + 1)
    ELSE NilState

InputPrintableHandler(key, state) ==
    IF key = "a"
    THEN InputState(Take(state.Value, state.CursorPos) \o <<key>>
                        \o Drop(state.Value, state.CursorPos),
                    state.CursorPos + 1)
    ELSE NilState

\* ComposeInputHandlers over the four default handlers: the first that
\* consumes the key
DefaultInputHandler(key, state) ==
    LET nav == InputNavigationHandler(key, state)
        del == InputDeletionHandler(key, state)
        ent == InputShiftEnterHandler(key, state)
    IN  IF ~nav.nil THEN nav
        ELSE IF ~del.nil THEN del
        ELSE IF ~ent.nil THEN ent
        ELSE InputPrintableHandler(key, state)

\* Input.setState: the value cut to the limit, the cursor clamped to it
setState(maxLength, state) ==
    LET limited == applyMaxLength(maxLength, state.Value)
    IN  InputState(limited, clampCursor(state.CursorPos, Len(limited)))

IStart(initial, maxLength) ==
    /\ inValue = initial
    /\ inCursor = Len(initial)
    /\ inMaxLength = maxLength
    /\ inFocused = FALSE
    /\ inInitial = initial
    /\ inOp = "NewInput"

\* NewInput with any InitialValue and MaxLength
IInit == \E initial \in InputValues, maxLength \in 0..MaxInputMax :
             IStart(initial, maxLength)

IIdle == IStart(<<>>, 0)

\* the focus manager calls Input.SetFocused
InputSetFocused ==
    /\ \E f \in BOOLEAN : f # inFocused /\ inFocused' = f
    /\ inOp' = "SetFocused"
    /\ UNCHANGED <<inValue, inCursor, inMaxLength, inInitial, notInput>>

\* Input.HandleKey with the default handler
InputHandleKey ==
    \E key \in InputKeys :
        LET newState == DefaultInputHandler(key, InputState(inValue, inCursor))
            set == setState(inMaxLength, newState)
        IN  /\ IF ~inFocused \/ newState.nil
               THEN UNCHANGED <<inValue, inCursor>>
               ELSE /\ Len(set.Value) <= MaxInputLen
                    /\ inValue' = set.Value
                    /\ inCursor' = set.CursorPos
            /\ inOp' = "HandleKey"
            /\ UNCHANGED <<inMaxLength, inFocused, inInitial, notInput>>

\* Input.SetValue
InputSetValue ==
    \E val \in InputValues :
        LET limited == applyMaxLength(inMaxLength, val)
        IN  /\ inValue' = limited
            /\ inCursor' = clampCursor(inCursor, Len(limited))
            /\ inOp' = "SetValue"
            /\ UNCHANGED <<inMaxLength, inFocused, inInitial, notInput>>

\* Input.SetCursorPos with any position, out of range ones included
InputSetCursorPos ==
    \E pos \in (0 - 1)..(MaxInputLen + 1) :
        /\ inCursor' = clampCursor(pos, Len(inValue))
        /\ inOp' = "SetCursorPos"
        /\ UNCHANGED <<inValue, inMaxLength, inFocused, inInitial, notInput>>

\* Input.Clear
InputClear ==
    /\ inValue' = <<>>
    /\ inCursor' = 0
    /\ inOp' = "Clear"
    /\ UNCHANGED <<inMaxLength, inFocused, inInitial, notInput>>

INext ==
    \/ InputSetFocused
    \/ InputHandleKey
    \/ InputSetValue
    \/ InputSetCursorPos
    \/ InputClear

\* ---------------------------------------------------------- the Select
SelectKeys == {"up", "down", "home", "enter", "x"}

\* Select.SelectedIndex: the signal, or the initial index while the signal is 0
SelectedIndex ==
    IF selectedIndex = 0 /\ initialIndex > 0 THEN initialIndex ELSE selectedIndex

\* Select.SetIndex: negative indices become 0
SetIndex(index) == IF index < 0 THEN 0 ELSE index

\* Select.Next: the signal plus one
SelectNextIndex(current) == current + 1

\* Select.Prev: the signal minus one, unless it is 0
SelectPrevIndex(current) == IF current > 0 THEN current - 1 ELSE current

\* NewSelect and the layout of count options, the initial value at option initial
WStart(count, initial) ==
    /\ selectedIndex = 0
    /\ selFocused = FALSE
    /\ optionCount = count
    /\ initialIndex = initial
    /\ selOp = "NewSelect"

WInit == \E count \in 1..MaxOptions : \E initial \in 0..(count - 1) :
             WStart(count, initial)

WIdle == WStart(1, 0)

\* the focus manager calls Select.SetFocused
SelectSetFocused ==
    /\ \E f \in BOOLEAN : f # selFocused /\ selFocused' = f
    /\ selOp' = "SetFocused"
    /\ UNCHANGED <<selectedIndex, optionCount, initialIndex, notSelect>>

SelectSetIndex ==
    \E index \in (0 - 1)..MaxIndex :
        /\ selectedIndex' = SetIndex(index)
        /\ selOp' = "SetIndex"
        /\ UNCHANGED <<selFocused, optionCount, initialIndex, notSelect>>

SelectNext ==
    /\ selectedIndex < MaxIndex
    /\ selectedIndex' = SelectNextIndex(selectedIndex)
    /\ selOp' = "Next"
    /\ UNCHANGED <<selFocused, optionCount, initialIndex, notSelect>>

SelectPrev ==
    /\ selectedIndex' = SelectPrevIndex(selectedIndex)
    /\ selOp' = "Prev"
    /\ UNCHANGED <<selFocused, optionCount, initialIndex, notSelect>>

\* Select.HandleKey without a custom handler
SelectHandleKey ==
    \E key \in SelectKeys :
        /\ key = "down" /\ selFocused => selectedIndex < MaxIndex
        /\ selectedIndex' =
               IF ~selFocused THEN selectedIndex
               ELSE CASE key = "up" -> SelectPrevIndex(selectedIndex)
                      [] key = "down" -> SelectNextIndex(selectedIndex)
                      [] key = "home" -> SetIndex(0)
                      [] OTHER -> selectedIndex
        /\ selOp' = IF selFocused THEN key ELSE "HandleKey"
        /\ UNCHANGED <<selFocused, optionCount, initialIndex, notSelect>>

WNext ==
    \/ SelectSetFocused
    \/ SelectSetIndex
    \/ SelectNext
    \/ SelectPrev
    \/ SelectHandleKey

RNext ==
    \/ SetSignal
    \/ BatchEnter
    \/ BatchExit
    \/ CreateEffect
    \/ DisposeEffect

\* the reactive graph with the owner scope of CreateRoot
ONext ==
    \/ SetSignal
    \/ BatchEnter
    \/ BatchExit
    \/ CreateEffect
    \/ DisposeEffect
    \/ RootEnter
    \/ RootExit
    \/ RootDispose

\* the reactive graph with effects that dispose one another
KillNext ==
    \/ SetSignal
    \/ BatchEnter
    \/ BatchExit
    \/ CreateEffect
    \/ CreateKiller
    \/ DisposeEffect

\* the reactive graph with effects that dispose themselves
CNext ==
    \/ SetSignal
    \/ BatchEnter
    \/ BatchExit
    \/ CreateEffect
    \/ CreateOnce
    \/ DisposeEffect

\* the reactive graph over signals created with CreateSignalWithEquals
ENext ==
    \/ SetSignalWithEquals
    \/ BatchEnter
    \/ BatchExit
    \/ CreateEffect
    \/ DisposeEffect

\* the reactive graph with effects that read inside Untrack
UNext ==
    \/ SetSignal
    \/ BatchEnter
    \/ BatchExit
    \/ CreateEffect
    \/ CreatePeek
    \/ DisposeEffect

\* owner scopes with OnCleanup, without batches
TNext ==
    \/ SetSignal
    \/ CreateEffect
    \/ DisposeEffect
    \/ RootEnter
    \/ RootExit
    \/ RootDispose
    \/ OnCleanup

Idle == PInit /\ AInit /\ onError = FALSE /\ DIdle /\ LIdle /\ NInit /\ XIdle /\ ZIdle /\ SIdle /\ BIdle /\ KIdle /\ GIdle /\ IIdle /\ WIdle

Init == RInit /\ FInit /\ mgr = "signals" /\ Idle

Next == RNext

\* signals, effects and batches
Spec == Init /\ [][Next]_vars

\* the same with effects that dispose one another
SpecKill == Init /\ [][KillNext]_vars

\* the same with effects that dispose themselves
SpecCleanup == Init /\ [][CNext]_vars

\* the same with CreateRoot, owners and root disposal
SpecOwner == Init /\ [][ONext]_vars

\* signals with a custom equality function
SpecEquals == Init /\ [][ENext]_vars

\* effects that read inside Untrack
SpecUntrack == Init /\ [][UNext]_vars

\* CreateRoot with OnCleanup callbacks
SpecRoot == Init /\ [][TNext]_vars

\* the focus manager
InitFocus == RInit /\ FInit /\ impl = "signals" /\ Idle

SpecFocus == InitFocus /\ [][FNext]_vars

\* the focus manager with Clear
FNextClear ==
    \/ FNext
    \/ DoClear

SpecFocusClear == InitFocus /\ [][FNextClear]_vars

\* the pipelined renderer
InitPipeline == RInit /\ FInit /\ impl = "goli" /\ mgr = "goli" /\ Idle

\* Run and its goroutines
InitApp ==
    /\ RInit /\ FInit /\ impl = "signals" /\ mgr = "signals"
    /\ PInit /\ AInit /\ DIdle /\ LIdle /\ NInit /\ XIdle /\ ZIdle /\ SIdle /\ BIdle /\ KIdle /\ GIdle /\ IIdle /\ WIdle

SpecApp == InitApp /\ [][ANext]_vars

\* the diff engine on every pair of buffers
InitDiff ==
    /\ RInit /\ FInit /\ impl = "goli" /\ mgr = "goli"
    /\ PInit /\ AInit /\ onError = FALSE
    /\ DInit /\ LIdle /\ NInit /\ XIdle /\ ZIdle /\ SIdle /\ BIdle /\ KIdle /\ GIdle /\ IIdle /\ WIdle

SpecDiff == InitDiff /\ [][DNext]_vars

\* ToVisualRows on every small LogicalBuffer and width
InitReflow ==
    /\ RInit /\ FInit /\ impl = "goli" /\ mgr = "goli"
    /\ PInit /\ AInit /\ onError = FALSE
    /\ DIdle /\ LInit /\ NInit /\ XIdle /\ ZIdle /\ SIdle /\ BIdle /\ KIdle /\ GIdle /\ IIdle /\ WIdle

SpecReflow == InitReflow /\ [][LNext]_vars

\* flex distribution on every small list of children
InitFlex ==
    /\ RInit /\ FInit /\ impl = "goli" /\ mgr = "goli"
    /\ PInit /\ AInit /\ onError = FALSE
    /\ DIdle /\ LIdle /\ NInit /\ XInit /\ ZIdle /\ SIdle /\ BIdle /\ KIdle /\ GIdle /\ IIdle /\ WIdle

SpecFlex == InitFlex /\ [][XNext]_vars

\* the merge of absolute boxes on every small list
InitZ ==
    /\ RInit /\ FInit /\ impl = "goli" /\ mgr = "goli"
    /\ PInit /\ AInit /\ onError = FALSE
    /\ DIdle /\ LIdle /\ NInit /\ XIdle /\ ZInit /\ SIdle /\ BIdle /\ KIdle /\ GIdle /\ IIdle /\ WIdle

SpecZ == InitZ /\ [][ZNext]_vars

\* Style.Merge on every pair of small styles
InitStyle ==
    /\ RInit /\ FInit /\ impl = "goli" /\ mgr = "goli"
    /\ PInit /\ AInit /\ onError = FALSE
    /\ DIdle /\ LIdle /\ NInit /\ XIdle /\ ZIdle /\ SInit /\ BIdle /\ KIdle /\ GIdle /\ IIdle /\ WIdle

SpecStyle == InitStyle /\ [][SNext]_vars

\* writes to a LogicalBuffer of any created height
InitLogical ==
    /\ RInit /\ FInit /\ impl = "goli" /\ mgr = "goli"
    /\ PInit /\ AInit /\ onError = FALSE
    /\ DIdle /\ LIdle /\ NInit /\ XIdle /\ ZIdle /\ SIdle /\ BInit /\ KIdle /\ GIdle /\ IIdle /\ WIdle

SpecLogical == InitLogical /\ [][BNext]_vars

\* the manager's mutex with an effect that calls back into the manager
InitLock ==
    /\ RInit /\ FInit /\ impl = "signals" /\ mgr = "signals"
    /\ PInit /\ AInit /\ onError = FALSE
    /\ DIdle /\ LIdle /\ NInit /\ XIdle /\ ZIdle /\ SIdle /\ BIdle /\ KInit /\ GIdle /\ IIdle /\ WIdle

SpecLock == InitLock /\ [][KNext]_vars

\* the App while it lives: time keeps passing, nothing else is promised
InitRender ==
    /\ RInit /\ FInit /\ impl = "signals" /\ mgr = "signals"
    /\ PInit /\ AInit /\ onError = FALSE
    /\ DIdle /\ LIdle /\ NInit /\ XIdle /\ ZIdle /\ SIdle /\ BIdle /\ KIdle /\ GInit /\ IIdle /\ WIdle

SpecThrottle == InitRender /\ [][GNext]_vars /\ WF_vars(AppTick)

\* the App with Dispose
SpecDispose == InitRender /\ [][GNextDispose]_vars

\* an Input from its construction on
InitInput ==
    /\ RInit /\ FInit /\ impl = "goli" /\ mgr = "goli"
    /\ PInit /\ AInit /\ onError = FALSE
    /\ DIdle /\ LIdle /\ NInit /\ XIdle /\ ZIdle /\ SIdle /\ BIdle /\ KIdle /\ GIdle /\ IInit /\ WIdle

SpecInput == InitInput /\ [][INext]_vars

\* a Select from its construction and first layout on
InitSelect ==
    /\ RInit /\ FInit /\ impl = "goli" /\ mgr = "goli"
    /\ PInit /\ AInit /\ onError = FALSE
    /\ DIdle /\ LIdle /\ NInit /\ XIdle /\ ZIdle /\ SIdle /\ BIdle /\ KIdle /\ GIdle /\ IIdle /\ WInit

SpecSelect == InitSelect /\ [][WNext]_vars

\* the sequential renderer over any sequence of frames
InitRenderer == RInit /\ FInit /\ impl = "goli" /\ mgr = "goli" /\ Idle

SpecRenderer == InitRenderer /\ [][NNext]_vars

SpecPipeline == InitPipeline /\ [][PNext]_vars

\* the same, with every stage goroutine scheduled as long as it can step
SpecPipelineLive ==
    /\ InitPipeline
    /\ [][PNext]_vars
    /\ WF_vars(LayoutStage)
    /\ WF_vars(BufferStage)
    /\ WF_vars(DiffStage)
    /\ WF_vars(OutputStage)
    /\ WF_vars(StopReturns)

\* ========================================================== properties
\* C1: inside a batch a write runs no effect; when the outermost batch exits
\* every effect runs at most once, and an effect that is the only one notified
\* in the batch (and is not disposed) runs exactly once and reads, for every
\* signal its body reads, the value last written to it.
C1_BatchRunsEffectOnce ==
    [][/\ (lastOp'.op = "write" /\ batchDepth > 0) =>
              /\ \A e \in Effects : ran'[e] = 0
              /\ value'[lastOp'.sig] = lastOp'.val
       /\ (lastOp'.op = "unbatch" /\ batchDepth = 1) =>
              \A e \in Effects :
                  /\ ran'[e] <= 1
                  /\ (notified = {e} /\ ~disposed[e]) =>
                         /\ ran'[e] = 1
                         /\ \A s \in BodyReads(kind[e], value) : seen'[e][s] = value[s]
      ]_vars

\* C1 witness: a batch that wrote both a and b has just completed, and the one
\* effect notified in it ran once and saw a = 1 and b = 1.
C1_Witness ==
    /\ lastOp.op = "unbatch"
    /\ lastOp.wr = {"a", "b"}
    /\ \E e \in Effects :
          /\ lastOp.nt = {e}
          /\ kind[e] = "sum"
          /\ ran[e] = 1
          /\ seen[e] = [s \in Signals |-> 1]
          /\ value = [s \in Signals |-> 1]

C3_DisposedNeverRuns ==
    [][\A e \in Effects : disposed[e] => ran'[e] = 0]_vars

\* C3 witness: a write to a signal whose subscriber set still holds a disposed
\* effect has completed outside any batch without running it.
C3_Witness ==
    /\ lastOp.op = "write"
    /\ batchDepth = 0
    /\ \E e \in Effects :
          /\ disposed[e]
          /\ e \in subscribers[lastOp.sig]
          /\ ran[e] = 0

\* C4: after every run of an effect it is subscribed to exactly the signals it
\* read in that run.
C4_SubscribedToLatestReads ==
    [][\A e \in Effects :
          ran'[e] >= 1 => {s \in Signals : e \in subscribers'[s]}
                              = {s \in Signals : seen'[e][s] # NoVal}
      ]_vars

\* C4 in package goli alone, where execute unsubscribes before it re-tracks.
C4_GoliSubscribedToLatestReads ==
    [][impl = "goli" =>
          \A e \in Effects :
              ran'[e] >= 1 => {s \in Signals : e \in subscribers'[s]}
                                  = {s \in Signals : seen'[e][s] # NoVal}
      ]_vars

\* C5 as stated: a computation is pending iff the batch depth is positive and
\* one of the signals it subscribes to was written during the current batch.
C5_PendingIffSubscribedSignalWritten ==
    \A e \in Effects :
        e \in pendingComputations <=>
            (batchDepth > 0 /\ \E s \in written : e \in subscribers[s])

\* C5 amended: a computation is pending iff the batch depth is positive and a
\* signal was written during the current batch while the computation was
\* subscribed to it.
C5_PendingIffNotifiedInBatch ==
    \A e \in Effects :
        e \in pendingComputations <=> (batchDepth > 0 /\ e \in notified)

\* C5 witness: inside a batch one effect is pending, and another one, created
\* after the write, subscribes to the written signal without being pending.
C5_Witness ==
    /\ batchDepth > 0
    /\ \E e, f \in Effects, s \in written :
          /\ e \in pendingComputations
          /\ e \in notified
          /\ f \notin pendingComputations
          /\ f \in subscribers[s]

\* C6: the exit of an inner batch runs nothing and leaves the pending set as
\* it is; the exit of the outermost batch empties the pending set, runs only
\* effects that were pending and, unless one of them panics, each of the
\* pending undisposed effects once.
C6_FlushOnlyAtOutermostExit ==
    [][lastOp'.op = "unbatch" =>
          IF batchDepth > 1
          THEN /\ \A e \in Effects : ran'[e] = 0
               /\ pendingComputations' = pendingComputations
               /\ batchDepth' = batchDepth - 1
          ELSE /\ pendingComputations' = {}
               /\ batchDepth' = 0
               /\ \A e \in Effects : ran'[e] >= 1 => e \in pendingComputations
               /\ ~panicked' =>
                      \A e \in pendingComputations : ~disposed[e] => ran'[e] = 1
      ]_vars

\* C6 witness: an inner batch has just exited with an effect still pending and
\* nothing run.
C6_Witness ==
    /\ lastOp.op = "unbatch"
    /\ batchDepth = 1
    /\ pendingComputations # {}
    /\ \A e \in Effects : ran[e] = 0

\* the owner current once a panic has unwound the driver's open CreateRoot calls
OwnerAfterUnwind ==
    IF \E i \in 1..Len(stack) : stack[i].t = "root"
    THEN stack[CHOOSE i \in 1..Len(stack) :
                   /\ stack[i].t = "root"
                   /\ \A j \in 1..(i - 1) : stack[j].t # "root"].prev
    ELSE currentOwner

\* C7: when an effect body panics, the tracking computation and the owner are
\* back at the values they had before the effect started.
C7_PanicRestoresContext ==
    [][panicked' =>
          /\ currentComputation' = currentComputation
          /\ currentOwner' = OwnerAfterUnwind
      ]_vars

\* C7, the owner alone: CreateRoot restores it in a deferred function.
C7_PanicRestoresOwner ==
    [][panicked' => currentOwner' = OwnerAfterUnwind]_vars

\* ------------------------------------------------------------ focus ring
Registered == {registered[i] : i \in 1..Len(registered)}

C9_AtMostOneRegisteredFocused ==
    Cardinality({f \in Registered : focused[f]}) <= 1

\* C10: request-focus is atomic: every effect that runs because of it sees
\* the state it leaves (previous focusable unfocused, new one focused and
\* current), never a state in between.
C10_RequestFocusAtomic ==
    fOp.op = "focus" =>
        \A snap \in obs : snap = [cur |-> currentFocused, foc |-> focused]

\* -------------------------------------------------------- key routing
\* C11: Tab and Shift-Tab are consumed by the manager and reach neither a
\* focusable's handler nor the global handler.  Any other key is consumed
\* without the global handler being invoked when there is a current
\* focusable and its handler returns true; otherwise the installed global
\* handler is invoked exactly once and its verdict returned, and the key is
\* not consumed when no global handler is installed.
C11_KeyRouting ==
    /\ fOp.op \in {"tab", "shifttab"} =>
           keyOut.consumed /\ keyOut.fcalls = 0 /\ keyOut.gcalls = 0
    /\ fOp.op = "key" =>
           IF fOp.prev # NoFocus /\ keyOut.fv
           THEN keyOut.consumed /\ keyOut.gcalls = 0 /\ keyOut.fcalls = 1
           ELSE IF globalKeyHandler
                THEN keyOut.gcalls = 1 /\ keyOut.consumed = keyOut.gv
                ELSE keyOut.gcalls = 0 /\ ~keyOut.consumed

\* a key the current focusable declined went to the global handler, which
\* consumed it
C11_Witness ==
    /\ fOp.op = "key"
    /\ fOp.prev # NoFocus
    /\ ~keyOut.fv
    /\ keyOut.fcalls = 1
    /\ keyOut.gcalls = 1
    /\ keyOut.consumed

\* C12: blurring or unregistering the current focusable makes the manager's
\* current none and focuses no other focusable; blurring or unregistering
\* any other focusable leaves the current unchanged.
C12_BlurUnregisterClearsCurrent ==
    [][fOp'.op \in {"blur", "unregister"} =>
           /\ currentFocused' = IF currentFocused = fOp'.f THEN NoFocus
                                ELSE currentFocused
           /\ \A g \in Focusables : focused'[g] => focused[g]]_vars

\* the current focusable was unregistered while another one stayed
\* registered, and nothing is current
C12_Witness ==
    /\ fOp.op = "unregister"
    /\ fOp.prev = fOp.f
    /\ fOp.prev # NoFocus
    /\ registered # <<>>
    /\ currentFocused = NoFocus

\* ----------------------------------------------------------- pipeline
\* the pool buffers referenced downstream of bufferStage
Downstream ==
    {diffIn[i] : i \in 1..Len(diffIn)}
        \cup (IF pc["diff"] = "diff" THEN {currentBuf} ELSE {})
        \cup ({prevBuffer} \ {NoBuf})

\* C13: with a pool of 4 buffers and channels of capacity 2, bufferStage
\* never clears or writes a pool buffer that is queued in diffIn, is being
\* diffed as the current frame, or is held by diffStage as the previous frame.
C13_PaintedBufferNotReferenced ==
    pc["buffer"] = "paint" => visualBuf \notin Downstream

\* C14: after Stop is called all four stage goroutines return and Stop
\* returns.
C14_StopTerminatesStages ==
    (pc["client"] = "waiting") ~>
        (pc["client"] = "stopped" /\ \A g \in Stages : pc[g] = "returned")

\* after Stop is called, Stop returns
C14_StopReturns == (pc["client"] = "waiting") ~> (pc["client"] = "stopped")

\* ---------------------------------------------------------------- app
\* C15: at most one execution of the renderer's Render is in progress at
\* any moment, and no Resize replaces the buffers while a Render is in
\* progress.
C15_SingleRenderOwner ==
    /\ [](Cardinality(Rendering) <= 1)
    /\ [][bufId' # bufId => Rendering = {}]_vars

\* C19: a panic raised while the render effect's body runs is caught in the
\* effect, does not reach the goroutine that wrote the signal, and is
\* forwarded to OnError when OnError is installed.
C19_EffectPanicForwarded ==
    [][\A t \in Writers :
           (/\ apc[t] \in {"effect", "render"}
            /\ apc'[t] = "idle"
            /\ lastPanic'.value # "none"
            /\ lastPanic'.thread = t) =>
               /\ proc' = "running"
               /\ onError => lastPanic'.forwarded]_vars

\* the same for panics whose value is an error
C19_ErrorPanicForwarded ==
    [][\A t \in Writers :
           (/\ apc[t] \in {"effect", "render"}
            /\ apc'[t] = "idle"
            /\ lastPanic'.value = "error"
            /\ lastPanic'.thread = t) =>
               /\ proc' = "running"
               /\ onError => lastPanic'.forwarded]_vars

\* C20: once Run has put the terminal into raw mode, the terminal is no
\* longer in raw mode when Run has returned or the process has ended.
C20_RawModeRestored ==
    proc # "running" => ~raw

\* --------------------------------------------------------------- diff
Narrow(buf) == \A y \in 1..Len(buf) : \A x \in 1..Len(buf[y]) : RuneWidth(buf[y][x].ch) = 1

\* C16: for any two cell buffers A and B of equal size, writing the output
\* of diff(A, B), coalesced into runs and encoded, to a display showing A
\* gives a display equal to B cell for cell; when A and B are identical the
\* diff has no changes.
C16_DiffRoundTrip ==
    /\ dstage = "applied" => display = Show(bufTo)
    /\ bufFrom = bufTo => DiffBuffers(bufFrom, bufTo) = <<>>

\* the same for buffers that hold single-width runes only
C16_NarrowDiffRoundTrip ==
    (Narrow(bufFrom) /\ Narrow(bufTo)) =>
        /\ dstage = "applied" => display = Show(bufTo)
        /\ bufFrom = bufTo => DiffBuffers(bufFrom, bufTo) = <<>>

\* ------------------------------------------------------------ renderer
\* C17: in every frame emitted through the diff path, over any sequence of
\* frames, every cursor-positioned run targets a row y < terminal height.
C17_DiffRunsInsideViewport ==
    emitted.path = "diff" => \A y \in emitted.ys : y < rHeight

\* as long as no frame has overflowed the terminal the visual buffers keep
\* the terminal's height, and then the diff path stays inside the viewport
C17_InsideViewportBeforeOverflow ==
    (emitted.path = "diff" /\ BufHeight(currentVisual) = rHeight)
        => \A y \in emitted.ys : y < rHeight

\* -------------------------------------------------------------- reflow
RECURSIVE Concat(_)
Concat(seqs) == IF seqs = <<>> THEN <<>> ELSE Head(seqs) \o Concat(Tail(seqs))

\* the visual rows of logical row y: from its first visual row up to the
\* first visual row of the next logical row
VisualRowsOf(v, y) ==
    SubSeq(v.Rows, v.LogicalToVisual[y] + 1,
           IF y = Len(v.LogicalToVisual) THEN Len(v.Rows) ELSE v.LogicalToVisual[y + 1])

\* C18: for any LogicalBuffer and any terminal width w > 0, the visual rows
\* each hold at most w cells, and for every logical row the concatenation of
\* its visual rows' cells, in order, equals the logical row's cells.
C18_ReflowPreservesRows ==
    vrows # NoRows =>
        /\ \A i \in 1..Len(vrows.Rows) : Len(vrows.Rows[i]) <= termWidth
        /\ Len(vrows.LogicalToVisual) = Len(lrows)
        /\ \A y \in 1..Len(lrows) : Concat(VisualRowsOf(vrows, y)) = lrows[y]

\* a row longer than the terminal is wide has been split with a remainder
C18_Witness ==
    /\ vrows # NoRows
    /\ \E y \in 1..Len(lrows) :
        /\ Len(lrows[y]) > termWidth
        /\ Len(lrows[y]) % termWidth # 0
        /\ Len(VisualRowsOf(vrows, y)) >= 2

\* ---------------------------------------------------------------- app
\* C21: after teardown is triggered in Run (by SIGINT/SIGTERM, by Ctrl-C on
\* the input reader, or by Quit), the signal goroutine returns and handles
\* no further resize signal.
C21_NoResizeAfterTeardown ==
    [][doneClosed => (bufId' = bufId /\ apc'["signal"] # "rerender")]_vars

\* when the teardown is the signal goroutine's own (SIGINT or SIGTERM), the
\* goroutine returns after cleanup
C21_SignalTeardownReturns ==
    [][(apc["signal"] = "cleanup" /\ apc'["signal"] # "cleanup" /\ proc' = "running")
          => (doneClosed' /\ apc'["signal"] = "returned")]_vars

\* ------------------------------------------------------------- cleanup
\* C22: each cleanup function returned by a run of an effect is invoked
\* exactly once, before the effect's next re-execution or at dispose; a
\* second dispose invokes nothing.  At every moment the only cleanup not
\* yet invoked is the one a live effect holds for its next run or dispose.
C22_CleanupExactlyOnce ==
    \A e \in Effects :
        /\ owed[e] = IF cleanup[e] THEN 1 ELSE 0
        /\ disposed[e] => owed[e] = 0

\* the same for the effects whose body does not dispose the effect
C22_CleanupExactlyOnceUnlessSelfDisposed ==
    \A e \in Effects :
        kind[e] # "once" =>
            /\ owed[e] = IF cleanup[e] THEN 1 ELSE 0
            /\ disposed[e] => owed[e] = 0

\* C23: when an effect is disposed, it is removed from the subscriber set of
\* every signal it observes before the user's cleanup function is invoked.
C23_UnsubscribedBeforeCleanup ==
    \A e \in Effects : atCleanup[e] # "subscribed"

\* package goli's dispose unsubscribes before it invokes the cleanup
C23_GoliUnsubscribedBeforeCleanup ==
    impl = "goli" => \A e \in Effects : atCleanup[e] # "subscribed"

\* a dispose of package goli has invoked a cleanup
C23_GoliCleanupInvoked ==
    impl = "goli" /\ \E e \in Effects : atCleanup[e] = "unsubscribed"

\* C24: invoking the disposer returned by CreateRoot runs every disposer
\* registered with that owner (effects created and OnCleanup callbacks
\* registered inside it) exactly once each; a later invocation of the root
\* disposer runs none of them again.
C24_RootDisposesOnce ==
    /\ \A d \in Disposers : dran[d] <= 1
    /\ lastOp.op = "rootdispose" =>
           /\ disposables = <<>>
           /\ \A d \in owned : dran[d] = 1
           /\ \A e \in owned \cap Effects : disposed[e]

\* the root disposer was invoked a second time after it had run an effect's
\* disposer and an OnCleanup callback
C24_Witness ==
    /\ lastOp.op = "rootdispose"
    /\ dran[CallbackId] = 1
    /\ \E e \in Effects : dran[e] = 1
    /\ disposables = <<>>
    /\ owned = Disposers

\* ------------------------------------------------------------- equals
\* C25: a write to a signal created with a custom equality predicate, with a
\* new value the predicate reports equal to the current value, does nothing:
\* the stored value is unchanged, no subscriber is executed and none is added
\* to the pending set.
C25_EqualWriteDoesNothing ==
    [][(lastOp'.op = "writeeq" /\ Equals(lastOp'.sig, value[lastOp'.sig], lastOp'.val))
          => /\ value' = value
             /\ \A e \in Effects : ran'[e] = 0
             /\ pendingComputations' = pendingComputations
             /\ subscribers' = subscribers]_vars

\* a value the predicate reports equal although it differs from the stored
\* one has been written to a signal with a subscriber, outside and inside a
\* batch
C25_Witness ==
    /\ lastOp.op = "writeeq"
    /\ lastOp.val # value[lastOp.sig]
    /\ subscribers[lastOp.sig] # {}
    /\ batchDepth > 0

\* ------------------------------------------------------------ untrack
\* an effect is subscribed to no signal its latest run read inside Untrack
\* only, and is subscribed to what it read after Untrack returned
UntrackedUnsubscribed ==
    \A e \in Effects :
        /\ \A sig \in peeked[e] : e \notin subscribers[sig]
        /\ (kind[e] = "peek" /\ ~disposed[e]) => e \in subscribers["a"]

\* a write to such a signal does not run the effect
UntrackedNotRerun ==
    \A e \in Effects :
        (lastOp'.op = "write" /\ lastOp'.sig \in peeked[e] /\ batchDepth = 0)
            => ran'[e] = 0

\* C26: signals read by f inside Untrack(f), called from within a tracking
\* effect, are not added to that effect's dependency set (later writes to
\* them do not re-run the effect), and the effect's tracking is restored when
\* Untrack returns, so that reads after it are tracked again.
C26_UntrackedNotDependency ==
    [](UntrackedUnsubscribed) /\ [][UntrackedNotRerun]_vars

\* the same for package goli
C26_GoliUntrackedNotDependency ==
    [](impl = "goli" => UntrackedUnsubscribed) /\ [][impl = "goli" => UntrackedNotRerun]_vars

\* package goli: an effect has read b inside Untrack only and b was written
C26_GoliUntrackedWritten ==
    /\ impl = "goli"
    /\ lastOp.op = "write" /\ lastOp.sig = "b"
    /\ \E e \in Effects : peeked[e] = {"b"} /\ ~disposed[e]

AbsoluteAppendedAscending ==
    newChildren # <<>> =>
        /\ Len(newChildren) = flexCount + Len(allAbsolute)
        /\ \A i \in 1..flexCount : newChildren[i] = FlexBox
        /\ \A b \in {allAbsolute[i] : i \in 1..Len(allAbsolute)} :
               \E i \in (flexCount + 1)..Len(newChildren) : newChildren[i] = b
        /\ \A i, j \in (flexCount + 1)..Len(newChildren) :
               i < j => newChildren[i].z <= newChildren[j].z

\* absolute boxes with equal z-index keep their collection order
AbsoluteStable ==
    newChildren # <<>> =>
        \A i, j \in (flexCount + 1)..Len(newChildren) :
            (i < j /\ newChildren[i].z = newChildren[j].z)
                => newChildren[i].id < newChildren[j].id

\* C28: collected absolute boxes are appended after the root's flex children
\* ordered by ascending z-index, and the sort is stable: absolute boxes with
\* equal z-index keep their collection order.
C28_AbsoluteSortedStable == AbsoluteAppendedAscending /\ AbsoluteStable

\* the boxes are appended after the flex children in ascending z-index
C28_AbsoluteSortedAscending == AbsoluteAppendedAscending

\* -------------------------------------------------------------- styles
Foreground(s) == <<s.Color, s.ColorRGB>>
BackgroundOf(s) == <<s.Background, s.BackgroundRGB>>
ColourChannels(s) == <<Foreground(s), BackgroundOf(s)>>

\* each channel, named or RGB, comes from the overlay when the overlay has it
ChannelsFromOverlay ==
    mergeResult # <<>> =>
        /\ Foreground(mergeResult[1]) =
               IF HasColor(mergeOverlay) THEN Foreground(mergeOverlay)
               ELSE Foreground(mergeBase)
        /\ BackgroundOf(mergeResult[1]) =
               IF HasBackground(mergeOverlay) THEN BackgroundOf(mergeOverlay)
               ELSE BackgroundOf(mergeBase)

\* merging with the empty style gives the same colours on either side
EmptyCommutes ==
    (mergeResult # <<>> /\ mergeOverlay = EmptyStyle) =>
        ColourChannels(mergeResult[1]) = ColourChannels(Merge(EmptyStyle, mergeBase))

FlagsOr ==
    mergeResult # <<>> =>
        \A f \in Flags : mergeResult[1][f] = (mergeBase[f] \/ mergeOverlay[f])

\* C30: merge(base, overlay) takes each colour channel (foreground,
\* background; named or 24-bit RGB) from overlay when overlay's is non-none
\* and otherwise from base, so merge(s, empty) and merge(empty, s) agree in
\* the colour channels, and every flag of the result is the OR of the two
\* inputs' flags.
C30_MergeChannelsAndFlags == ChannelsFromOverlay /\ EmptyCommutes /\ FlagsOr

\* between styles whose 24-bit colours come with a named colour, or that have
\* no 24-bit colour, the claim holds
NamedOnly(s) ==
    /\ s.ColorRGB # "nil" => s.Color # "ColorNone"
    /\ s.BackgroundRGB # "nil" => s.Background # "ColorNone"

C30_NamedMergeChannelsAndFlags ==
    (NamedOnly(mergeBase) /\ NamedOnly(mergeOverlay)) => C30_MergeChannelsAndFlags

\* the flags are OR-combined for every pair of styles
C30_FlagsOr == FlagsOr

\* a merge whose overlay has only a 24-bit foreground
C30_RgbOverlayMerged ==
    /\ mergeResult # <<>>
    /\ mergeOverlay.Color = "ColorNone" /\ mergeOverlay.ColorRGB = "rgb"

\* ------------------------------------------------------ logical buffer
\* a write at a row at or beyond the cap leaves the buffer as it was
CappedWriteIsNoOp ==
    lbLast.y >= MaxBufferHeight => Buffer = lbLast.before

\* C29 as stated: a write at row y >= 10 000 is a no-op, and after any
\* sequence of writes the height never exceeds the cap.
C29_HeightNeverExceedsCap ==
    /\ CappedWriteIsNoOp
    /\ lbWrites > 0 => lbHeight <= MaxBufferHeight

\* C29: a LogicalBuffer write (set or merging set) at row y >= 10 000 is a
\* no-op, and no write grows the buffer beyond the cap: after any sequence of
\* writes the height is at most the larger of the created height and 10 000.
C29_WritesNeverGrowBeyondCap ==
    /\ CappedWriteIsNoOp
    /\ lbHeight <= Max(lbCreated, MaxBufferHeight)
    /\ lbCreated <= MaxBufferHeight => lbHeight <= MaxBufferHeight

\* a buffer that a write grew to the cap, and then a write at the cap row
C29_Witness ==
    /\ lbCreated < MaxBufferHeight
    /\ lbHeight = MaxBufferHeight
    /\ lbLast.y = MaxBufferHeight
    /\ lbLast.before.height = MaxBufferHeight

\* ------------------------------------------------------- focus flags
\* C31: after any sequence of focus-manager operations (register,
\* unregister, request-focus, request-blur, Tab, Shift-Tab, clear), a
\* focusable reports focused = true if and only if it is the manager's
\* current focusable; a focusable unregistered or cleared while current no
\* longer reports focused.
C31_FocusedIffCurrent ==
    \A f \in Focusables : focused[f] <=> (f = currentFocused)

\* the current focusable always reports focused
C31_CurrentReportsFocused ==
    currentFocused # NoFocus => focused[currentFocused]

\* every operation but Unregister keeps the flags equal to the current
C31_KeptExceptByUnregister ==
    [][(C31_FocusedIffCurrent /\ fOp'.op # "unregister") => C31_FocusedIffCurrent']_vars

\* Clear was called while a focusable was current
C31_ClearedWhileCurrent ==
    /\ fOp.op = "clear"
    /\ fOp.prev # NoFocus
    /\ ~focused[fOp.prev]

CurrentRegisteredOrNone ==
    currentFocused = NoFocus \/ IndexOf(registered, currentFocused) # 0

\* C40: after any sequence of focus-manager operations, the manager's current
\* focusable is either none or a member of the registered list, so Tab and
\* Shift-Tab always compute the next position from a valid index of the
\* current focusable.
C40_CurrentIsRegistered == CurrentRegisteredOrNone

\* every operation but RequestFocus keeps the current focusable registered
C40_KeptExceptByRequestFocus ==
    [][(CurrentRegisteredOrNone /\ fOp'.op # "focus") => CurrentRegisteredOrNone']_vars

\* Tab pressed while the current focusable is not in the list
C40_TabFromUnregistered ==
    /\ fOp.op = "tab"
    /\ fOp.prev # NoFocus
    /\ IndexOf(fOp.before, fOp.prev) = 0
    /\ fOp.before # <<>>
    /\ currentFocused = fOp.before[1]

\* --------------------------------------------------------- manager lock
\* the effect waits for the mutex that the call running it holds: nothing
\* can release it
SelfDeadlocked == lkEffPc = "acquire" /\ muLocked

\* C33: Unregister and Clear never deadlock: they complete even when an
\* effect subscribed to the current-focus signal, executed synchronously by
\* the signal write they perform, itself calls a focus-manager operation that
\* acquires the manager's lock.
C33_NoDeadlock == ~SelfDeadlocked

\* the calls that write the signal without holding the mutex complete
C33_UnlockedWritesComplete ==
    lkCall.op \in {"focus", "create"} => ~SelfDeadlocked

\* ------------------------------------------------------------ teardown
\* C32: in run(), teardown executes at most once no matter how many triggers
\* fire or race: the on-unmount callback is called at most once and the done
\* channel is closed exactly once (a second close panics).
C32_TeardownAtMostOnce ==
    /\ unmounts <= 1
    /\ [][(unmounts' # unmounts) => (~doneClosed /\ doneClosed')]_vars

\* triggers that do not overlap tear down once: a trigger that reads
\* cleanedUp after an earlier teardown has set it returns at once
C32_LateTriggerReturns ==
    [][\A t \in {"input", "signal"} :
           (apc[t] = "idle" /\ apc'[t] \in {"cleanup", "returned"} /\ cleanedUp)
               => (apc'[t] = "returned" /\ unmounts' = unmounts)]_vars

\* both goroutines passed the check before either set cleanedUp
C32_BothPastCheck ==
    apc["input"] = "cleanup" /\ apc["signal"] = "cleanup"

\* -------------------------------------------------------- render effect
\* C34: with throttling enabled, once signal writes stop, the frame for the
\* final signal values is eventually written to the output: a render skipped
\* because it fell within 16 ms of the previous render is not lost.
C34_FinalFrameEventuallyWritten ==
    <>[](throttleDisabled \/ lastFrame = appSig)

\* with the throttle disabled the output always shows the current values
C34_UnthrottledFrameWritten ==
    throttleDisabled => lastFrame = appSig

\* a write that comes after the frame interval has passed is rendered
C34_WriteBeyondIntervalRendered ==
    [][(appSig' # appSig /\ sinceRender = "beyond") => lastFrame' = appSig']_vars

\* a write was skipped by the throttle and the interval has passed since
C34_SkippedAndIdle ==
    /\ ~throttleDisabled
    /\ lastFrame # appSig
    /\ sinceRender = "beyond"
    /\ appWrites = MaxAppWrites

\* C35: after App.Dispose (or run() teardown) has completed, the app writes
\* no further frame to the output, whether triggered by a signal write, by
\* Rerender, or by a resize delivered afterwards.
C35_NoFrameAfterDispose ==
    appDisposed => wrote = "none"

\* a signal write after Dispose writes no frame
C35_NoEffectFrameAfterDispose ==
    appDisposed => wrote # "effect"

\* ------------------------------------------------------- overflow dump
\* C36: over any sequence of frames, the renderer uses the sequential
\* overflow dump for a frame only if that frame's own painted content exceeds
\* the terminal height; a frame whose content fits is emitted through the
\* diff path even when earlier frames overflowed.
C36_DumpOnlyWhenFrameOverflows ==
    emitted.path = "dump" => emitted.own > rHeight

\* a frame painted into a logical buffer that has not grown is dumped only
\* if its own content overflows
C36_DumpOnlyWhenFrameOverflowsUngrown ==
    [][(logicalH.next <= rHeight /\ emitted'.path = "dump" /\ rHeight' = rHeight)
           => emitted'.own > rHeight]_vars

\* a frame that overflows is dumped
C36_OverflowDumped ==
    (emitted.path # "none" /\ emitted.own > rHeight) => emitted.path = "dump"

\* ------------------------------------------------- disposed while queued
\* C37: an effect that is disposed after it has been added to the pending
\* set during a batch (or captured in a writer's subscriber snapshot) but
\* before it is executed does not run its body, nor its previous cleanup
\* again, when the drain or notification loop reaches it.
C37_DisposedWhileQueuedSkipped ==
    /\ afterDispose.ran = {}
    /\ \A e \in Effects : disposed[e] => (owed[e] = 0 /\ ~cleanup[e])

\* the flush of a batch reached an effect that was notified in the batch
\* and disposed before the flush got to it, and skipped it
C37_Witness ==
    /\ lastOp.op = "unbatch"
    /\ batchDepth = 0
    /\ \E e \in lastOp.nt :
          /\ disposed[e]
          /\ ran[e] = 0
          /\ kind[e] = "sum"

\* a write outside any batch ran an effect that disposed the other
\* subscriber of its snapshot, which the loop then reached and skipped
C37_SnapshotSkipped ==
    /\ lastOp.op = "write"
    /\ batchDepth = 0
    /\ impl = "goli"
    /\ \E e \in afterDispose.skipped :
          /\ kind[e] = "sum"
          /\ kind[Victim(e)] = "kill"
          /\ ran[Victim(e)] = 1
          /\ ran[e] = 0

\* ---------------------------------------------------------- C38
CursorInValue == 0 <= inCursor /\ inCursor <= Len(inValue)

ValueWithinMaxLength == inMaxLength > 0 => Len(inValue) <= inMaxLength

\* C38: after construction and any sequence of HandleKey, SetValue,
\* SetCursorPos and Clear calls the cursor position lies between 0 and the
\* length of the value, and with a max-length above 0 the value is no longer
\* than the max-length.
C38_CursorAndLengthBounds == CursorInValue /\ ValueWithinMaxLength

\* the cursor half holds from construction on
C38_CursorWithinValue == CursorInValue

\* the length half holds once a call has stored a value, and from
\* construction on when the initial value is within the limit
C38_LengthBoundAfterStore ==
    (\/ inOp \in {"SetValue", "Clear"}
     \/ Len(inInitial) <= inMaxLength) => ValueWithinMaxLength

\* an input constructed with an initial value longer than its max-length
C38_ConstructedBeyondLimit ==
    /\ inOp = "NewInput"
    /\ inMaxLength > 0
    /\ Len(inValue) > inMaxLength

\* a printable key pressed on a full input
C38_InsertAtLimit ==
    /\ inOp = "HandleKey"
    /\ inFocused
    /\ inMaxLength > 0
    /\ Len(inValue) = inMaxLength
    /\ inCursor = Len(inValue)

\* ---------------------------------------------------------- C39
IndexInRange == 0 <= SelectedIndex /\ SelectedIndex <= optionCount - 1

\* C39: for a Select with n >= 1 options, after any sequence of Next, Prev,
\* SetIndex and key presses the selected index stays within [0, n - 1].
C39_SelectedIndexInRange == IndexInRange

\* the lower bound holds
C39_SelectedIndexNotNegative == 0 <= SelectedIndex

\* Prev, the up key and the home key keep an index that is in range in range
C39_BackwardKeepsInRange ==
    [][(IndexInRange /\ selOp' \in {"Prev", "up", "home"}) => IndexInRange']_vars

\* Next called on the last option
C39_NextOnLast ==
    /\ selOp \in {"Next", "down"}
    /\ selectedIndex = optionCount

\* Prev called on the first option
C39_PrevOnFirst ==
    /\ selOp \in {"Prev", "up"}
    /\ selectedIndex = 0

====
